---- MODULE Spec2Model ----
(***************************************************************************)
(* A model of the go-assert library (package assert): a test calls checks  *)
(* one after another on a reporter (internal.T, here a recording double);  *)
(* each check marks its frame with Helper and, when its condition fails,   *)
(* hands one message to Error.                                             *)
(*                                                                         *)
(* Representation.  A Go string that the code inspects (the string under   *)
(* test, a regular expression, a panic payload's text, an error's text) is *)
(* a sequence of one-character strings, so that length, prefix and search  *)
(* are computed on it; Str flattens it into the text that ends up in a     *)
(* message.  Messages and the caller's msg strings are TLA+ strings.  The  *)
(* alphabet holds no quote, backslash or control character, so %q is the   *)
(* text between two double quotes.                                         *)
(*                                                                         *)
(* Every check is an operator named as in the source that returns what one *)
(* call does: the reporter calls it makes, in order, whether a run-time    *)
(* panic left it instead of a return, and how often it invoked a callback. *)
(***************************************************************************)
EXTENDS Integers, Sequences, FiniteSets, TLC

VARIABLES reporter, last, verdicts, halted, handle, arg, given, threads

vars == <<reporter, last, verdicts, halted, handle, arg, given, threads>>

\* The memory of a test that keeps a handle: the handle, the argument it
\* hands to the checks, what it gave to the entry point, and its threads.
kept == <<handle, arg, given, threads>>

\* The number of checks one test calls on its reporter.
MaxChecks == 2

\* The length of the slices and the size of the maps handed to the checks.
MaxLen == 3

-----------------------------------------------------------------------------
(* Strings *)

RECURSIVE Str(_)
\* The text of a string held as a sequence of one-character strings.
Str(s) == IF s = <<>> THEN "" ELSE Head(s) \o Str(Tail(s))

\* fmt's %q on a string of the alphabet.
Quote(s) == "\"" \o Str(s) \o "\""

RECURSIVE Join(_, _)
\* strings.Join(elems, sep).
Join(elems, sep) ==
    IF elems = <<>> THEN ""
    ELSE IF Len(elems) = 1 THEN elems[1]
    ELSE elems[1] \o sep \o Join(Tail(elems), sep)

\* strings.HasPrefix, strings.HasSuffix, strings.Contains.
HasPrefixStr(s, p) == Len(p) <= Len(s) /\ SubSeq(s, 1, Len(p)) = p
HasSuffixStr(s, p) == Len(p) <= Len(s) /\ SubSeq(s, Len(s) - Len(p) + 1, Len(s)) = p
ContainsStr(s, p) ==
    \E i \in 0..(Len(s) - Len(p)) : SubSeq(s, i + 1, i + Len(p)) = p

-----------------------------------------------------------------------------
(* regexp.MatchString, on the patterns built from literal characters, the  *)
(* wildcard "." and grouping parentheses.                                  *)

RECURSIVE ParenDepth(_, _)
\* The nesting depth after reading expr from depth d; -1 once a ")" closes
\* nothing ("unexpected )").
ParenDepth(expr, d) ==
    IF d < 0 THEN -1
    ELSE IF expr = <<>> THEN d
    ELSE IF Head(expr) = "(" THEN ParenDepth(Tail(expr), d + 1)
    ELSE IF Head(expr) = ")" THEN ParenDepth(Tail(expr), d - 1)
    ELSE ParenDepth(Tail(expr), d)

\* regexp.Compile succeeds: every parenthesis is closed.
CompileOk(expr) == ParenDepth(expr, 0) = 0

\* The pattern's atoms: a group only brackets a concatenation.
Atoms(expr) == SelectSeq(expr, LAMBDA c : c \notin {"(", ")"})

\* An unanchored search for the atoms in got.
Search(p, got) ==
    \E i \in 0..(Len(got) - Len(p)) :
        \A j \in 1..Len(p) : p[j] = "." \/ p[j] = got[i + j]

\* regexp.MatchString(expr, got): (matched, err).
MatchString(expr, got) ==
    IF CompileOk(expr)
    THEN [ok |-> Search(Atoms(expr), got), err |-> FALSE]
    ELSE [ok |-> FALSE, err |-> TRUE]

-----------------------------------------------------------------------------
(* The reporter's calls and a check's outcome *)

\* t.Helper()
Helper == [kind |-> "Helper", text |-> "", str |-> "", msg |-> <<>>]

\* A check that returned, having made the reporter calls tr.
Return(tr) == [trace |-> tr, panicked |-> FALSE, fncalls |-> 0]

\* A check that a run-time panic left after the reporter calls tr.
Crash(tr) == [trace |-> tr, panicked |-> TRUE, fncalls |-> 0]

\* The Error calls of a trace.
Errors(tr) == SelectSeq(tr, LAMBDA e : e.kind = "Error")

-----------------------------------------------------------------------------
(* assert.go *)

\* fail joining with "; ", the separator of the earlier revision.
fail_semicolon(str, msg) ==
    << Helper,
       [kind |-> "Error", text |-> Join(<<str>> \o msg, "; "),
        str |-> str, msg |-> msg] >>

\* fail that reports only when the caller gave no msg string.
fail_only_bare(str, msg) ==
    IF msg = <<>>
    THEN << Helper, [kind |-> "Error", text |-> str, str |-> str, msg |-> msg] >>
    ELSE << Helper >>

\* fail without the mark on its own frame.
fail_unmarked(str, msg) ==
    << [kind |-> "Error", text |-> Join(<<str>> \o msg, ", "), str |-> str, msg |-> msg] >>

\* fail(t, str, msg...): the reporter calls it makes.  The Error call keeps,
\* beside the text handed over, the arguments fail was called with.
fail(str, msg) ==
    << Helper,
       [kind |-> "Error", text |-> Join(<<str>> \o msg, ", "),
        str |-> str, msg |-> msg] >>

-----------------------------------------------------------------------------
(* Go values boxed in interface{}: the dynamic type, whether the value is  *)
(* the nil of a nilable type, the text of a scalar, the texts of the       *)
(* elements of a slice or map (of the Keys, for a Tree) and, for a         *)
(* reference, its address.  The untyped nil has no dynamic type.           *)

GoValue(type, isnil, val, elems, at) ==
    [type |-> type, isnil |-> isnil, val |-> val, elems |-> elems, at |-> at]

UntypedNil == GoValue("<nil>", TRUE, "", <<>>, "")

\* The interface types.
InterfaceTypes == {"interface {}", "error", "io.Reader"}

\* reflect.Kind of a type.
KindOf(type) ==
    CASE type = "<nil>" -> "Invalid"
      [] type = "bool" -> "Bool"
      [] type = "int" -> "Int"
      [] type = "string" -> "String"
      [] type \in {"[]string", "[]int", "[]interface {}"} -> "Slice"
      [] type = "map[string]string" -> "Map"
      [] type = "func()" -> "Func"
      [] type = "chan int" -> "Chan"
      [] type = "unsafe.Pointer" -> "UnsafePointer"
      [] type \in {"assert_test.Pair", "assert_test.Tree", "assert_test.Node",
                   "assert_test.Flag", "errors.errorString"} -> "Struct"
      [] type \in InterfaceTypes -> "Interface"
      [] OTHER -> "Ptr"

\* fmt's %T of a boxed value.
TypeName(v) == v.type

\* fmt's %v of a boxed value: an error by its Error(), a slice or map by
\* its elements, a pointer to a struct by &{fields}, another reference by
\* its address.
Show(v) ==
    CASE v.type = "<nil>" -> "<nil>"
      [] KindOf(v.type) = "Slice" -> "[" \o Join(v.elems, " ") \o "]"
      [] KindOf(v.type) = "Map" -> "map[" \o Join(v.elems, " ") \o "]"
      [] v.isnil -> "<nil>"
      [] v.type = "*errors.errorString" -> v.val
      [] v.type = "*assert_test.Tree" -> "&{[" \o Join(v.elems, " ") \o "]}"
      [] v.type \in {"*assert_test.Node", "*assert_test.Flag"} -> "&{}"
      [] KindOf(v.type) \in {"Ptr", "Func", "Chan", "UnsafePointer"} -> v.at
      [] OTHER -> v.val

\* reflect.ValueOf(got): the zero Value (invalid) for the untyped nil.
ValueOf(got) ==
    [valid |-> got.type # "<nil>", kind |-> KindOf(got.type),
     isnil |-> got.isnil, type |-> got.type]

\* isNil with the nilable kinds' case removed: only the invalid Value is nil.
isNil_invalid_only(v) == ~v.valid

\* isNil(v reflect.Value)
isNil(v) ==
    IF v.kind \in {"Chan", "Func", "Interface", "Map", "Ptr", "Slice", "UnsafePointer"}
    THEN v.isnil
    ELSE ~v.valid

\* True(t, got, msg...)
True(got, msg) ==
    Return(<<Helper>> \o
           (IF ~got THEN fail("got false but expect true", msg) ELSE <<>>))

\* False(t, got, msg...)
False(got, msg) ==
    Return(<<Helper>> \o
           (IF got THEN fail("got true but expect false", msg) ELSE <<>>))

\* Nil(t, got, msg...)
Nil(got, msg) ==
    Return(<<Helper>> \o
           (IF ~isNil(ValueOf(got))
            THEN fail("got (" \o TypeName(got) \o ") " \o Show(got) \o " but expect nil", msg)
            ELSE <<>>))

\* NotNil by got == nil: only the untyped nil is nil.
NotNil_by_equality(got, msg) ==
    Return(<<Helper>> \o
           (IF got.type = "<nil>"
            THEN << Helper, [kind |-> "Error", text |-> "got nil but expect not nil",
                             str |-> "got nil but expect not nil", msg |-> msg] >>
            ELSE <<>>))

\* NotNil(t, got, msg...)
NotNil(got, msg) ==
    Return(<<Helper>> \o
           (IF isNil(ValueOf(got))
            THEN fail("got nil but expect not nil", msg)
            ELSE <<>>))

\* matches(t, got, expr, msg...): the reporter calls it makes.
matches(got, expr, msg) ==
    <<Helper>> \o
    (LET m == MatchString(expr, got)
     IN IF m.err THEN fail("invalid pattern", msg)
        ELSE IF ~m.ok
        THEN fail("got " \o Quote(got) \o " which does not match " \o Quote(expr), msg)
        ELSE <<>>)

\* The text recovery returns when fn returned.
SUCCESS == <<"<", "<", "S", "U", "C", "C", "E", "S", "S", ">", ">">>

RECURSIVE JoinChars(_)
\* The elements of a []string separated by a space, as %v prints them.
JoinChars(elems) ==
    IF elems = <<>> THEN <<>>
    ELSE IF Len(elems) = 1 THEN elems[1]
    ELSE elems[1] \o <<" ">> \o JoinChars(Tail(elems))

\* fmt.Sprint(r) of a recovered payload: a string as it is, an error by its
\* Error(), a []string by its elements in brackets.
Sprint(r) ==
    CASE r.kind = "string" -> r.text
      [] r.kind = "error" -> r.text
      [] r.kind = "[]string" -> <<"[">> \o JoinChars(r.text) \o <<"]">>

\* A function under test: whether it panics, and with which payload.
Fn(panics, payload) == [panics |-> panics, payload |-> payload]

\* recovery without the deferred recover(): a panic of fn leaves it.
recovery_unrecovered(fn) ==
    IF fn.panics
    THEN [str |-> <<>>, calls |-> 1, escaped |-> TRUE]
    ELSE [str |-> SUCCESS, calls |-> 1, escaped |-> FALSE]

\* recovery(fn): the text it returns, how often it invoked fn, and whether a
\* panic of fn left it.  The deferred recover() ends the panic and sets the
\* named result; without a panic the return statement sets it.
recovery(fn) ==
    IF fn.panics
    THEN [str |-> Sprint(fn.payload), calls |-> 1, escaped |-> FALSE]
    ELSE [str |-> SUCCESS, calls |-> 1, escaped |-> FALSE]

\* Panic(t, fn, expr, msg...)
Panic(fn, expr, msg) ==
    LET r == recovery(fn)
    IN IF r.escaped
       THEN [trace |-> <<Helper>>, panicked |-> TRUE, fncalls |-> r.calls]
       ELSE [trace |-> <<Helper>> \o
                       (IF r.str = SUCCESS
                        THEN fail("did not panic", msg)
                        ELSE matches(r.str, expr, msg)),
             panicked |-> FALSE, fncalls |-> r.calls]

-----------------------------------------------------------------------------
(* ThatAssertion *)

\* A type supports ==: comparing two slices, maps or functions boxed in
\* interfaces is a run-time panic.
Comparable(type) == KindOf(type) \notin {"Slice", "Map", "Func"}

\* Two values of one type hold the same content.
SameContent(a, b) == a.isnil = b.isnil /\ a.val = b.val /\ a.elems = b.elems

\* a == b on two interface{} values: ok is FALSE where the comparison
\* panics (identical dynamic types that are not comparable).
InterfaceEq(a, b) ==
    IF a.type # b.type THEN [ok |-> TRUE, eq |-> FALSE]
    ELSE IF a.type = "<nil>" THEN [ok |-> TRUE, eq |-> TRUE]
    ELSE IF ~Comparable(a.type) THEN [ok |-> FALSE, eq |-> FALSE]
    ELSE IF KindOf(a.type) \in {"Ptr", "Chan", "UnsafePointer"}
    THEN [ok |-> TRUE, eq |-> a.isnil = b.isnil /\ a.at = b.at]
    ELSE [ok |-> TRUE, eq |-> SameContent(a, b)]

\* reflect.DeepEqual(a, b)
DeepEqual(a, b) ==
    IF a.type = "<nil>" \/ b.type = "<nil>" THEN a.type = b.type
    ELSE IF a.type # b.type THEN FALSE
    ELSE IF KindOf(a.type) = "Func" THEN a.isnil /\ b.isnil
    ELSE IF KindOf(a.type) \in {"Chan", "UnsafePointer"}
    THEN a.isnil = b.isnil /\ a.at = b.at
    ELSE SameContent(a, b)

\* reflect.TypeOf(v): no Type for the untyped nil.
TypeOfValue(v) == v.type
NoType == "<nil>"

\* Type.Elem() of the pointer types.
Elem(type) ==
    CASE type = "*error" -> "error"
      [] type = "*io.Reader" -> "io.Reader"
      [] type = "*int" -> "int"
      [] type = "*assert_test.Tree" -> "assert_test.Tree"
      [] type = "*assert_test.Node" -> "assert_test.Node"
      [] type = "*errors.errorString" -> "errors.errorString"
      [] type = "[]string" -> "string"
      [] type = "[]int" -> "int"
      [] type = "[]interface {}" -> "interface {}"
      [] OTHER -> NoType

\* The method set of a type holds the methods of an interface type.
TypeImplements(type, iface) ==
    \/ iface = "interface {}"
    \/ iface = "error" /\ type = "*errors.errorString"

\* Type.AssignableTo(u)
AssignableTo(type, u) ==
    type = u \/ (KindOf(u) = "Interface" /\ TypeImplements(type, u))

\* (*ThatAssertion).Equal
That_Equal(v, expect, msg) ==
    Return(<<Helper>> \o
           (IF ~DeepEqual(v, expect)
            THEN fail("got (" \o TypeName(v) \o ") " \o Show(v) \o " but expect (" \o
                      TypeName(expect) \o ") " \o Show(expect), msg)
            ELSE <<>>))

\* (*ThatAssertion).NotEqual
That_NotEqual(v, expect, msg) ==
    Return(<<Helper>> \o
           (IF DeepEqual(v, expect)
            THEN fail("got (" \o TypeName(v) \o ") " \o Show(v) \o " but expect not (" \o
                      TypeName(expect) \o ") " \o Show(expect), msg)
            ELSE <<>>))

\* (*ThatAssertion).Same
That_Same(v, expect, msg) ==
    LET c == InterfaceEq(v, expect)
    IN IF ~c.ok THEN Crash(<<Helper>>)
       ELSE Return(<<Helper>> \o
                   (IF ~c.eq
                    THEN fail("got (" \o TypeName(v) \o ") " \o Show(v) \o " but expect (" \o
                              TypeName(expect) \o ") " \o Show(expect), msg)
                    ELSE <<>>))

\* (*ThatAssertion).NotSame
That_NotSame(v, expect, msg) ==
    LET c == InterfaceEq(v, expect)
    IN IF ~c.ok THEN Crash(<<Helper>>)
       ELSE Return(<<Helper>> \o
                   (IF c.eq
                    THEN fail("expect not (" \o TypeName(expect) \o ") " \o Show(expect), msg)
                    ELSE <<>>))

\* (*ThatAssertion).TypeOf: a method call on the Type of the untyped nil is
\* a nil dereference.
That_TypeOf(v, expect, msg) ==
    LET e1 == TypeOfValue(v)
        t2 == TypeOfValue(expect)
    IN IF t2 = NoType THEN Crash(<<Helper>>)
       ELSE LET e2 == IF KindOf(t2) = "Ptr" /\ KindOf(Elem(t2)) = "Interface"
                      THEN Elem(t2) ELSE t2
            IN IF e1 = NoType THEN Crash(<<Helper>>)
               ELSE Return(<<Helper>> \o
                           (IF ~AssignableTo(e1, e2)
                            THEN fail("got type (" \o e1 \o ") but expect type (" \o e2 \o ")", msg)
                            ELSE <<>>))

\* (*ThatAssertion).Implements: Type.Implements panics on a type that is not
\* an interface type.
That_Implements(v, expect, msg) ==
    LET e1 == TypeOfValue(v)
        t2 == TypeOfValue(expect)
    IN IF t2 = NoType THEN Crash(<<Helper>>)
       ELSE IF KindOf(t2) = "Ptr" /\ KindOf(Elem(t2)) # "Interface"
       THEN Return(<<Helper>> \o fail("expect should be interface", msg))
       ELSE LET e2 == IF KindOf(t2) = "Ptr" THEN Elem(t2) ELSE t2
            IN IF e1 = NoType \/ KindOf(e2) # "Interface" THEN Crash(<<Helper>>)
               ELSE Return(<<Helper>> \o
                           (IF ~TypeImplements(e1, e2)
                            THEN fail("got type (" \o e1 \o ") but expect type (" \o e2 \o ")", msg)
                            ELSE <<>>))

\* The signature of the method name of a type: whether it exists, its
\* parameter types and its result types.
NoMethod == [found |-> FALSE, in |-> <<>>, out |-> <<>>]
MethodByName(type, name) ==
    IF type = "*assert_test.Tree" /\ name \in {"Has", "Contains"}
    THEN [found |-> TRUE, in |-> <<"string">>, out |-> <<"bool">>]
    ELSE IF type = "*assert_test.Node" /\ name \in {"Has", "Contains"}
    THEN [found |-> TRUE, in |-> <<"string">>, out |-> <<"bool", "error">>]
    ELSE IF type = "*assert_test.Flag" /\ name \in {"Has", "Contains"}
    THEN [found |-> TRUE, in |-> <<>>, out |-> <<"bool">>]
    ELSE NoMethod

\* (*Tree).Has and (*Tree).Contains: slices.Contains(t.Keys, key).
TreeHas(tree, key) == \E i \in 1..Len(tree.elems) : tree.elems[i] = key.val

\* A check that called a method of the value under test once and returned,
\* and one that the method's panic left.
Invoked(tr) == [trace |-> tr, panicked |-> FALSE, fncalls |-> 1]
InvokedCrash(tr) == [trace |-> tr, panicked |-> TRUE, fncalls |-> 1]

\* The check by the method name (Has, Contains) of the wrapped value, with
\* verb the word of the message.  MethodByName panics on the zero Value;
\* Call panics, before it calls, on a number of arguments other than the
\* method's and on an argument that is the zero Value or not assignable to
\* the parameter; the method body panics on a nil receiver.
ByMethod(name, verb, v, expect, msg) ==
    IF v.type = "<nil>" THEN Crash(<<Helper>>)
    ELSE LET m == MethodByName(v.type, name)
         IN IF ~m.found
            THEN Return(<<Helper>> \o
                        fail("method '" \o name \o "' not found on type " \o TypeName(v), msg))
            ELSE IF Len(m.out) # 1 \/ m.out[1] # "bool"
            THEN Return(<<Helper>> \o
                        fail("method '" \o name \o "' must return only a bool", msg))
            ELSE IF \/ Len(m.in) # 1
                    \/ expect.type = "<nil>"
                    \/ ~AssignableTo(expect.type, m.in[1])
            THEN Crash(<<Helper>>)
            ELSE IF v.isnil THEN InvokedCrash(<<Helper>>)
            ELSE Invoked(<<Helper>> \o
                         (IF ~TreeHas(v, expect)
                          THEN fail("got (" \o TypeName(v) \o ") " \o Show(v) \o " not " \o verb \o
                                    " (" \o TypeName(expect) \o ") " \o Show(expect), msg)
                          ELSE <<>>))

\* (*ThatAssertion).Has
That_Has(v, expect, msg) == ByMethod("Has", "has", v, expect, msg)

\* (*ThatAssertion).Contains
That_Contains(v, expect, msg) == ByMethod("Contains", "contains", v, expect, msg)

\* A slice with its elements as the boxed values v.Index(i).Interface()
\* yields.
GoSeq(type, items) ==
    [type |-> type, isnil |-> FALSE, val |-> "",
     elems |-> [i \in 1..Len(items) |-> Show(items[i])], at |-> "", items |-> items]

\* Some element of the sequence is deeply equal to v.
InItems(v, expect) == \E i \in 1..Len(expect.items) : DeepEqual(v, expect.items[i])

\* "unsupported expect value (%T) %v"
Unsupported(expect, msg) ==
    fail("unsupported expect value (" \o TypeName(expect) \o ") " \o Show(expect), msg)

\* fmt's %s of a reflect.Type, nil for the untyped nil.
TypeString(type) == IF type = NoType THEN "%!s(<nil>)" ELSE type

\* (*ThatAssertion).InSlice
That_InSlice(v, expect, msg) ==
    Return(<<Helper>> \o
           (IF KindOf(expect.type) \notin {"Array", "Slice"} THEN Unsupported(expect, msg)
            ELSE IF InItems(v, expect) THEN <<>>
            ELSE fail("got (" \o TypeName(v) \o ") " \o Show(v) \o " is not in (" \o
                      TypeName(expect) \o ") " \o Show(expect), msg)))

\* NotInSlice that scans whatever the element type.
That_NotInSlice_untyped(v, expect, msg) ==
    Return(<<Helper>> \o
           (IF KindOf(expect.type) \notin {"Array", "Slice"} THEN Unsupported(expect, msg)
            ELSE IF InItems(v, expect)
            THEN fail("got (" \o TypeName(v) \o ") " \o Show(v) \o " is in (" \o
                      TypeName(expect) \o ") " \o Show(expect), msg)
            ELSE <<>>))

\* (*ThatAssertion).NotInSlice
That_NotInSlice(v, expect, msg) ==
    Return(<<Helper>> \o
           (IF KindOf(expect.type) \notin {"Array", "Slice"} THEN Unsupported(expect, msg)
            ELSE IF TypeOfValue(v) # Elem(expect.type)
            THEN fail("got type (" \o TypeString(TypeOfValue(v)) \o
                      ") doesn't match expect type (" \o TypeString(expect.type) \o ")", msg)
            ELSE IF InItems(v, expect)
            THEN fail("got (" \o TypeName(v) \o ") " \o Show(v) \o " is in (" \o
                      TypeName(expect) \o ") " \o Show(expect), msg)
            ELSE <<>>))

-----------------------------------------------------------------------------
(* StringAssertion *)

\* The decimal digits.
Digits == <<"0", "1", "2", "3", "4", "5", "6", "7", "8", "9">>

RECURSIVE Itoa(_)
\* fmt's %d of a natural number.
Itoa(n) == IF n < 10 THEN Digits[n + 1] ELSE Itoa(n \div 10) \o Digits[(n % 10) + 1]

\* ThatString(t, v): the handle.
ThatString(t, v) == [type |-> "StringAssertion", t |-> t, v |-> v]

\* The reporter of a check that reports to one reporter of the package.
ReporterOf_shared(a) == "t1"

\* The reporter a check of the handle a calls: a.t.
ReporterOf(a) == a.t

\* "got (%T) %v" of the string under test.
GotString(v) == "got (string) " \o Str(v)

\* (*StringAssertion).Length
String_Length(v, length, msg) ==
    Return(<<Helper>> \o
           (IF Len(v) # length
            THEN fail("length mismatch, " \o GotString(v) \o " with length " \o
                      Itoa(Len(v)) \o " but expect length " \o Itoa(length), msg)
            ELSE <<>>))

\* (*StringAssertion).Equal
String_Equal(v, expect, msg) ==
    Return(<<Helper>> \o
           (IF v # expect
            THEN fail("strings are not equal, " \o GotString(v) \o
                      " but expect (string) " \o Str(expect), msg)
            ELSE <<>>))

\* (*StringAssertion).NotEqual
String_NotEqual(v, expect, msg) ==
    Return(<<Helper>> \o
           (IF v = expect
            THEN fail("strings are equal, " \o GotString(v) \o " but expect not", msg)
            ELSE <<>>))

\* (*StringAssertion).Matches: one condition, err != nil || !ok, and one
\* message for both.
String_Matches(v, expr, msg) ==
    LET m == MatchString(expr, v)
    IN Return(<<Helper>> \o
              (IF m.err \/ ~m.ok
               THEN fail("string does not match the pattern, " \o GotString(v) \o
                         " but expect to match regex " \o Quote(expr), msg)
               ELSE <<>>))

\* (*StringAssertion).HasPrefix
String_HasPrefix(v, prefix, msg) ==
    Return(<<Helper>> \o
           (IF ~HasPrefixStr(v, prefix)
            THEN fail("string does not start with the specified prefix, " \o GotString(v) \o
                      " but expect to have prefix " \o Quote(prefix), msg)
            ELSE <<>>))

\* (*StringAssertion).HasSuffix
String_HasSuffix(v, suffix, msg) ==
    Return(<<Helper>> \o
           (IF ~HasSuffixStr(v, suffix)
            THEN fail("string does not end with the specified suffix, " \o GotString(v) \o
                      " but expect to have suffix " \o Quote(suffix), msg)
            ELSE <<>>))

\* (*StringAssertion).Contains
String_Contains(v, substr, msg) ==
    Return(<<Helper>> \o
           (IF ~ContainsStr(v, substr)
            THEN fail("string does not contain the specified substring, " \o GotString(v) \o
                      " but expect to contain substring " \o Quote(substr), msg)
            ELSE <<>>))

\* (*StringAssertion).IsEmpty
String_IsEmpty(v, msg) ==
    Return(<<Helper>> \o
           (IF v # <<>>
            THEN fail("string is not empty, " \o GotString(v) \o " but expect empty string", msg)
            ELSE <<>>))

\* (*StringAssertion).IsNotEmpty
String_IsNotEmpty(v, msg) ==
    Return(<<Helper>> \o
           (IF v = <<>>
            THEN fail("string is empty, " \o GotString(v) \o " but expect non-empty string", msg)
            ELSE <<>>))

-----------------------------------------------------------------------------
(* json.Unmarshal into interface{}, on the JSON texts made of digits,      *)
(* brackets, commas and spaces: numbers and arrays.  The decoder reads the *)
(* text one character at a time, in one of the scanner's states and with a *)
(* stack of the arrays it is inside of.                                    *)

\* The parsed tree: a number or an array of trees.
JsonNumber(n) == [kind |-> "number", n |-> n, elems |-> <<>>]
JsonArray(elems) == [kind |-> "array", n |-> 0, elems |-> elems]

\* The decoder before the character at position i: its state, the elements
\* read so far of every array it is inside of, the digits of the number it
\* is inside of, the finished top-level value, the syntax error.
Decoder(state, i, stack, n, tree, err) ==
    [state |-> state, i |-> i, stack |-> stack, n |-> n, tree |-> tree, err |-> err]

\* The decoder after the value v that ended before position i: v is the
\* top-level value, or the next element of the innermost array.
EndValue(stack, v, i) ==
    IF stack = <<>> THEN Decoder("stateEndTop", i, stack, 0, v, "")
    ELSE Decoder("stateEndValue", i,
                 [stack EXCEPT ![Len(stack)] = Append(stack[Len(stack)], v)], 0, v, "")

\* The decoder stopped by a syntax error.
SyntaxError(d, err) == [d EXCEPT !.state = "error", !.err = err]

\* One character: the scanner's step functions.
Step(s, d) ==
    LET eof == d.i > Len(s)
        c == IF eof THEN "" ELSE s[d.i]
        next == [d EXCEPT !.i = d.i + 1]
        invalid == "invalid character '" \o c \o "' "
        endArray == EndValue(SubSeq(d.stack, 1, Len(d.stack) - 1),
                             JsonArray(d.stack[Len(d.stack)]), d.i + 1)
    IN CASE d.state = "state1" ->
                IF ~eof /\ \E k \in 1..10 : Digits[k] = c
                THEN [next EXCEPT !.n = 10 * d.n + (CHOOSE k \in 0..9 : Digits[k + 1] = c)]
                ELSE EndValue(d.stack, JsonNumber(d.n), d.i)
         [] d.state = "stateEndTop" ->
                IF eof THEN [d EXCEPT !.state = "done"]
                ELSE IF c = " " THEN next
                ELSE SyntaxError(d, invalid \o "after top-level value")
         [] eof -> SyntaxError(d, "unexpected end of JSON input")
         [] c = " " -> next
         [] d.state = "stateEndValue" ->
                IF c = "," THEN [next EXCEPT !.state = "stateBeginValue"]
                ELSE IF c = "]" THEN endArray
                ELSE SyntaxError(d, invalid \o "after array element")
         [] c = "[" ->
                [next EXCEPT !.state = "stateBeginValueOrEmpty", !.stack = Append(d.stack, <<>>)]
         [] c = "]" /\ d.state = "stateBeginValueOrEmpty" -> endArray
         [] c = "0" -> EndValue(d.stack, JsonNumber(0), d.i + 1)
         [] \E k \in 2..10 : Digits[k] = c ->
                [next EXCEPT !.state = "state1",
                             !.n = CHOOSE k \in 1..9 : Digits[k + 1] = c]
         [] OTHER -> SyntaxError(d, invalid \o "looking for beginning of value")

RECURSIVE Scan(_, _)
\* The decoder at the end of the text or at its first syntax error.
Scan(s, d) == IF d.state \in {"done", "error"} THEN d ELSE Scan(s, Step(s, d))

\* json.Unmarshal([]byte(s), &tree): whether err is nil, the tree, the text
\* of err.
Unmarshal(s) ==
    LET d == Scan(s, Decoder("stateBeginValue", 1, <<>>, 0, JsonNumber(0), ""))
    IN [ok |-> d.state = "done", tree |-> d.tree, err |-> d.err]

\* The pieces of the message JsonEqual fails with, none when it passes: the
\* words of the cause and the two operands; err is left out.
JsonEqualFailure(v, expect) ==
    LET gotJson == Unmarshal(v)
        expectJson == Unmarshal(expect)
        operands == <<"got (string) ", Str(v), " but expect (string) ", Str(expect)>>
    IN IF ~gotJson.ok THEN <<"invalid JSON in got value, ">> \o operands
       ELSE IF ~expectJson.ok THEN <<"invalid JSON in expect value, ">> \o operands
       ELSE IF gotJson.tree # expectJson.tree
       THEN <<"JSON structures are not equal, ">> \o operands
       ELSE <<>>

\* (*StringAssertion).JsonEqual
String_JsonEqual(v, expect, msg) ==
    LET parts == JsonEqualFailure(v, expect)
    IN Return(<<Helper>> \o (IF parts # <<>> THEN fail(Join(parts, ""), msg) ELSE <<>>))

-----------------------------------------------------------------------------
(* ErrorAssertion.  An error value is its identity, the text of Error() and *)
(* the error Unwrap() returns; the nil error has none of them.             *)

GoError(id, text, unwrap) == [id |-> id, text |-> text, unwrap |-> unwrap]

NilError == GoError("nil", <<>>, "nil")

\* errors.New("ab"), a second errors.New("ab"), and fmt.Errorf("c%w", the
\* first).
ErrAB == GoError("e1", <<"a", "b">>, "nil")
ErrAB2 == GoError("e2", <<"a", "b">>, "nil")
ErrWrap == GoError("w1", <<"c", "a", "b">>, "e1")

Errs == {NilError, ErrAB, ErrAB2, ErrWrap}

\* err.Unwrap(), nil at the end of the chain.
Unwrap(err) == CHOOSE e \in Errs : e.id = err.unwrap

RECURSIVE InChain(_, _)
\* The loop of errors.Is: err or an error it wraps is target.
InChain(err, target) ==
    IF err = NilError THEN FALSE
    ELSE IF err = target THEN TRUE
    ELSE InChain(Unwrap(err), target)

\* errors.Is(err, target)
errors_Is(err, target) ==
    IF err = NilError \/ target = NilError THEN err = target
    ELSE InChain(err, target)

\* errors.As(err, &target) with target an interface{} variable: every
\* non-nil error is assignable to it.
errors_As(err) == err # NilError

\* (*ErrorAssertion).IsNil
Error_IsNil(v, msg) ==
    Return(<<Helper>> \o
           (IF v # NilError
            THEN fail("expect nil error, got: " \o Str(v.text), msg)
            ELSE <<>>))

\* (*ErrorAssertion).IsNotNil
Error_IsNotNil(v, msg) ==
    Return(<<Helper>> \o
           (IF v = NilError THEN fail("expect not nil error", msg) ELSE <<>>))

\* (*ErrorAssertion).Is: the message calls Error() on target and on the
\* error under test, a nil dereference on a nil error.
Error_Is(v, target, msg) ==
    IF ~errors_Is(target, v)
    THEN IF target = NilError \/ v = NilError THEN Crash(<<Helper>>)
         ELSE Return(<<Helper>> \o
                     fail("expect error: " \o Str(target.text) \o ", got: " \o Str(v.text), msg))
    ELSE Return(<<Helper>>)

\* (*ErrorAssertion).IsNot
Error_IsNot(v, target, msg) ==
    IF errors_Is(target, v)
    THEN IF target = NilError THEN Crash(<<Helper>>)
         ELSE Return(<<Helper>> \o
                     fail("expect error not to be: " \o Str(target.text), msg))
    ELSE Return(<<Helper>>)

\* (*ErrorAssertion).As
Error_As(v, target, msg) ==
    Return(<<Helper>> \o
           (IF ~errors_As(v)
            THEN fail("expect error to be of type: " \o TypeName(target), msg)
            ELSE <<>>))

\* (*ErrorAssertion).ContainsMessage
Error_ContainsMessage(v, substring, msg) ==
    IF v = NilError
    THEN Return(<<Helper>> \o fail("expect not nil error", msg))
    ELSE Return(<<Helper>> \o
                (IF ~ContainsStr(v.text, substring)
                 THEN fail("expect error message to contain: " \o Str(substring) \o
                           ", got: " \o Str(v.text), msg)
                 ELSE <<>>))

\* (*ErrorAssertion).Matches
Error_Matches(v, expr, msg) ==
    IF v = NilError
    THEN Return(<<Helper>> \o fail("expect not nil error", msg))
    ELSE Return(<<Helper>> \o matches(v.text, expr, msg))

-----------------------------------------------------------------------------
(* SliceAssertion.  A slice is whether it is nil and its elements; the     *)
(* element type is int.  Go indexes from 0, a sequence from 1.             *)

GoSlice(isnil, elems) == [isnil |-> isnil, elems |-> elems]

\* fmt's %v of a []int.
ShowInts(elems) == "[" \o Join([i \in 1..Len(elems) |-> Itoa(elems[i])], " ") \o "]"

\* The smallest number of a non-empty set.
Min(S) == CHOOSE m \in S : \A n \in S : m <= n

\* The loop over cand against v from offset: the first Go index i of cand at
\* which v[offset+i] is out of range (a run-time panic) or differs from
\* cand[i], or none.
FirstMismatch(v, cand, offset) ==
    LET I == {i \in 0..(Len(cand) - 1) :
                 \/ offset + i < 0
                 \/ offset + i >= Len(v)
                 \/ v[offset + i + 1] # cand[i + 1]}
    IN IF I = {} THEN [found |-> FALSE, i |-> 0, oob |-> FALSE]
       ELSE [found |-> TRUE, i |-> Min(I),
             oob |-> offset + Min(I) < 0 \/ offset + Min(I) >= Len(v)]

\* HasPrefix without its length test.
Slice_HasPrefix_unguarded(v, prefix, msg) ==
    LET m == FirstMismatch(v.elems, prefix.elems, 0)
    IN IF ~m.found THEN Return(<<Helper>>)
       ELSE IF m.oob THEN Crash(<<Helper>>)
       ELSE Return(<<Helper>> \o
                   fail("got element " \o Itoa(v.elems[m.i + 1]) \o " at index " \o Itoa(m.i) \o
                        " does not match prefix element " \o Itoa(prefix.elems[m.i + 1]), msg))

\* (*SliceAssertion).HasPrefix
Slice_HasPrefix(v, prefix, msg) ==
    IF Len(prefix.elems) > Len(v.elems)
    THEN Return(<<Helper>> \o
                fail("got length " \o Itoa(Len(v.elems)) \o " is less than prefix length " \o
                     Itoa(Len(prefix.elems)), msg))
    ELSE LET m == FirstMismatch(v.elems, prefix.elems, 0)
         IN IF ~m.found THEN Return(<<Helper>>)
            ELSE IF m.oob THEN Crash(<<Helper>>)
            ELSE Return(<<Helper>> \o
                        fail("got element " \o Itoa(v.elems[m.i + 1]) \o " at index " \o Itoa(m.i) \o
                             " does not match prefix element " \o Itoa(prefix.elems[m.i + 1]), msg))

\* (*SliceAssertion).HasSuffix
Slice_HasSuffix(v, suffix, msg) ==
    IF Len(suffix.elems) > Len(v.elems)
    THEN Return(<<Helper>> \o
                fail("got length " \o Itoa(Len(v.elems)) \o " is less than suffix length " \o
                     Itoa(Len(suffix.elems)), msg))
    ELSE LET offset == Len(v.elems) - Len(suffix.elems)
             m == FirstMismatch(v.elems, suffix.elems, offset)
         IN IF ~m.found THEN Return(<<Helper>>)
            ELSE IF m.oob THEN Crash(<<Helper>>)
            ELSE Return(<<Helper>> \o
                        fail("got element " \o Itoa(v.elems[offset + m.i + 1]) \o " at index " \o
                             Itoa(offset + m.i) \o " does not match suffix element " \o
                             Itoa(suffix.elems[m.i + 1]), msg))

\* SubSlice that tries every offset of the slice.
Slice_SubSlice_every_offset(v, sub, msg) ==
    IF Len(sub.elems) = 0 THEN Return(<<Helper>>)
    ELSE LET tries == [i \in 0..(Len(v.elems) - 1) |-> FirstMismatch(v.elems, sub.elems, i)]
         IN IF \E i \in DOMAIN tries : ~tries[i].found THEN Return(<<Helper>>)
            ELSE IF \E i \in DOMAIN tries : tries[i].oob THEN Crash(<<Helper>>)
            ELSE Return(<<Helper>> \o
                        fail("got " \o ShowInts(v.elems) \o " does not contain sub-slice " \o
                             ShowInts(sub.elems), msg))

\* (*SliceAssertion).SubSlice: the offsets i run from 0 to len(a.v)-len(sub),
\* none when sub is the longer.
Slice_SubSlice(v, sub, msg) ==
    IF Len(sub.elems) = 0 THEN Return(<<Helper>>)
    ELSE LET tries == [i \in 0..(Len(v.elems) - Len(sub.elems)) |->
                          FirstMismatch(v.elems, sub.elems, i)]
         IN IF \E i \in DOMAIN tries : ~tries[i].found THEN Return(<<Helper>>)
            ELSE IF \E i \in DOMAIN tries : tries[i].oob THEN Crash(<<Helper>>)
            ELSE Return(<<Helper>> \o
                        fail("got " \o ShowInts(v.elems) \o " does not contain sub-slice " \o
                             ShowInts(sub.elems), msg))

\* (*SliceAssertion).NotSubSlice: the loop of SubSlice, failing at the first
\* offset that matches; an empty sub returns at once.
Slice_NotSubSlice(v, sub, msg) ==
    IF Len(sub.elems) = 0 THEN Return(<<Helper>>)
    ELSE LET tries == [i \in 0..(Len(v.elems) - Len(sub.elems)) |->
                          FirstMismatch(v.elems, sub.elems, i)]
         IN IF \E i \in DOMAIN tries : ~tries[i].found
            THEN Return(<<Helper>> \o
                        fail("got " \o ShowInts(v.elems) \o " contains sub-slice " \o
                             ShowInts(sub.elems), msg))
            ELSE IF \E i \in DOMAIN tries : tries[i].oob THEN Crash(<<Helper>>)
            ELSE Return(<<Helper>>)

\* The indices i of s, counted from 0, at which the element before s[i] is
\* in the relation rel to s[i].
Pairs(s, rel) ==
    {i \in 1..(Len(s) - 1) :
        CASE rel = "<" -> s[i] < s[i + 1]
          [] rel = "<=" -> s[i] <= s[i + 1]
          [] rel = ">" -> s[i] > s[i + 1]
          [] rel = ">=" -> s[i] >= s[i + 1]}

\* The loop of the ordering checks: at the first Go index i >= 1 with
\* a.v[i-1] bad a.v[i], one failure citing a.v[i], i, a.v[i-1] and i-1
\* around the words of the check.
OrderLoop(v, bad, words, msg) ==
    LET I == Pairs(v.elems, bad)
    IN IF I = {} THEN Return(<<Helper>>)
       ELSE LET i == Min(I)
            IN Return(<<Helper>> \o
                      fail("got element " \o Itoa(v.elems[i + 1]) \o " at index " \o Itoa(i) \o
                           " " \o words \o " " \o Itoa(v.elems[i]) \o " at index " \o
                           Itoa(i - 1), msg))

\* (*SliceAssertion).IsIncreasing
Slice_IsIncreasing(v, msg) ==
    OrderLoop(v, ">=", "is not greater than", msg)

\* IsNonIncreasing as the failure of IsIncreasing.
Slice_IsNonIncreasing_negated(v, msg) ==
    IF Errors(Slice_IsIncreasing(v, msg).trace) = <<>>
    THEN Return(<<Helper>> \o fail("got " \o ShowInts(v.elems) \o " is increasing", msg))
    ELSE Return(<<Helper>>)

\* (*SliceAssertion).IsNonIncreasing
Slice_IsNonIncreasing(v, msg) ==
    OrderLoop(v, "<", "is greater than", msg)

\* (*SliceAssertion).IsDecreasing
Slice_IsDecreasing(v, msg) ==
    OrderLoop(v, "<=", "is not less than", msg)

\* (*SliceAssertion).IsNonDecreasing
Slice_IsNonDecreasing(v, msg) ==
    OrderLoop(v, ">", "is less than", msg)

\* IsSorted comparing strictly.
Slice_IsSorted_strict(v, msg) ==
    OrderLoop(v, ">=", "is greater than", msg)

\* (*SliceAssertion).IsSorted
Slice_IsSorted(v, msg) ==
    OrderLoop(v, ">", "is greater than", msg)

\* (*SliceAssertion).IsSortedDescending
Slice_IsSortedDescending(v, msg) ==
    OrderLoop(v, "<", "is less than", msg)

\* A check that applied its predicate n times and returned.
Applied(tr, n) == [trace |-> tr, panicked |-> FALSE, fncalls |-> n]

\* The first Go index + 1 of an element on which the predicate (the set of
\* the elements it is true of) returns want, or 0: the range loop stops
\* there.
FirstWhere(elems, fn, want) ==
    LET I == {i \in 1..Len(elems) : (elems[i] \in fn) = want}
    IN IF I = {} THEN 0 ELSE Min(I)

\* (*SliceAssertion).All
Slice_All(v, fn, msg) ==
    LET i == FirstWhere(v.elems, fn, FALSE)
    IN IF i = 0 THEN Applied(<<Helper>>, Len(v.elems))
       ELSE Applied(<<Helper>> \o
                    fail("got element " \o Itoa(v.elems[i]) \o
                         " does not satisfy the condition", msg), i)

\* Any that, like All, holds of the slice without elements.
Slice_Any_vacuous(v, fn, msg) ==
    LET i == FirstWhere(v.elems, fn, TRUE)
    IN IF i # 0 THEN Applied(<<Helper>>, i)
       ELSE IF v.elems = <<>> THEN Applied(<<Helper>>, 0)
       ELSE Applied(<<Helper>> \o
                    fail("no element in " \o ShowInts(v.elems) \o
                         " satisfies the condition", msg), Len(v.elems))

\* (*SliceAssertion).Any
Slice_Any(v, fn, msg) ==
    LET i == FirstWhere(v.elems, fn, TRUE)
    IN IF i # 0 THEN Applied(<<Helper>>, i)
       ELSE Applied(<<Helper>> \o
                    fail("no element in " \o ShowInts(v.elems) \o
                         " satisfies the condition", msg), Len(v.elems))

\* (*SliceAssertion).None
Slice_None(v, fn, msg) ==
    LET i == FirstWhere(v.elems, fn, TRUE)
    IN IF i = 0 THEN Applied(<<Helper>>, Len(v.elems))
       ELSE Applied(<<Helper>> \o
                    fail("got element " \o Itoa(v.elems[i]) \o
                         " satisfies the condition", msg), i)

\* ThatSlice(t, v): the handle.
ThatSlice(t, v) == [type |-> "SliceAssertion", t |-> t, v |-> v]

-----------------------------------------------------------------------------
(* NumberAssertion, on the fixed-width integer types int8 and uint8.  A    *)
(* number is its type and its value.                                       *)

GoNumber(type, n) == [type |-> type, n |-> n]

\* The number of values of an 8-bit type.
Width8 == 256

\* The value of type that arithmetic yields for the integer n: the result
\* wraps around.
Wrap(type, n) ==
    IF type = "uint8" THEN n % Width8
    ELSE ((n + (Width8 \div 2)) % Width8) - (Width8 \div 2)

\* fmt's %v of an integer.
ShowInt(n) == IF n < 0 THEN "-" \o Itoa(0 - n) ELSE Itoa(n)

\* "(%T) %v" of a number.
ShowNumber(type, n) == "(" \o type \o ") " \o ShowInt(n)

\* (*NumberAssertion).Between
Number_Between(v, lower, upper, msg) ==
    Return(<<Helper>> \o
           (IF v.n < lower \/ v.n > upper
            THEN fail("got " \o ShowNumber(v.type, v.n) \o " but expect between " \o
                      ShowNumber(v.type, lower) \o " and " \o ShowNumber(v.type, upper), msg)
            ELSE <<>>))

\* NotBetween on the open range.
Number_NotBetween_exclusive(v, lower, upper, msg) ==
    Return(<<Helper>> \o
           (IF v.n > lower /\ v.n < upper
            THEN fail("got " \o ShowNumber(v.type, v.n) \o " but expect not between " \o
                      ShowNumber(v.type, lower) \o " and " \o ShowNumber(v.type, upper), msg)
            ELSE <<>>))

\* (*NumberAssertion).NotBetween
Number_NotBetween(v, lower, upper, msg) ==
    Return(<<Helper>> \o
           (IF v.n >= lower /\ v.n <= upper
            THEN fail("got " \o ShowNumber(v.type, v.n) \o " but expect not between " \o
                      ShowNumber(v.type, lower) \o " and " \o ShowNumber(v.type, upper), msg)
            ELSE <<>>))

\* (*NumberAssertion).InDelta: diff := a.v - expect and diff = -diff are
\* computed in the type of the number.
Number_InDelta(v, expect, delta, msg) ==
    LET d0 == Wrap(v.type, v.n - expect)
        diff == IF d0 < 0 THEN Wrap(v.type, 0 - d0) ELSE d0
    IN Return(<<Helper>> \o
              (IF diff > delta
               THEN fail("got " \o ShowNumber(v.type, v.n) \o " is not within delta " \o
                         ShowNumber(v.type, delta) \o " of " \o ShowNumber(v.type, expect), msg)
               ELSE <<>>))

-----------------------------------------------------------------------------
(* MapAssertion.  A map is whether it is nil and a function from its keys  *)
(* to its values; keys are strings, values ints.                           *)

GoMap(isnil, m) == [isnil |-> isnil, m |-> m]

\* The keys in the order fmt prints them.
SortedKeys == <<"a", "b", "x", "y">>

\* fmt's %v of a map: its entries in key order.
ShowMap(m) ==
    LET keys == SelectSeq(SortedKeys, LAMBDA k : k \in DOMAIN m)
    IN "map[" \o Join([i \in 1..Len(keys) |-> keys[i] \o ":" \o ShowInt(m[keys[i]])], " ") \o "]"

\* The entry of the actual map that Equal's loop rejects first when range
\* yields the keys in order: the first key missing from expect or bound to
\* another value there; expectV is then V's zero value or the other value.
FirstUnequal(m, expect, order) ==
    LET I == {i \in 1..Len(order) :
                 order[i] \notin DOMAIN expect \/ m[order[i]] # expect[order[i]]}
    IN IF I = {} THEN [found |-> FALSE, k |-> "", expectV |-> 0]
       ELSE [found |-> TRUE, k |-> order[Min(I)],
             expectV |-> IF order[Min(I)] \in DOMAIN expect THEN expect[order[Min(I)]] ELSE 0]

\* Equal without its length test.
Map_Equal_unsized(v, expect, order, msg) ==
    LET u == FirstUnequal(v.m, expect.m, order)
    IN Return(<<Helper>> \o
              (IF u.found
               THEN fail("got element " \o ShowInt(v.m[u.k]) \o " at key " \o u.k \o
                         " but expect " \o ShowInt(u.expectV), msg)
               ELSE <<>>))

\* (*MapAssertion).Equal, with range yielding the keys of a.v in order.
Map_Equal(v, expect, order, msg) ==
    IF Cardinality(DOMAIN v.m) # Cardinality(DOMAIN expect.m)
    THEN Return(<<Helper>> \o
                fail("got length " \o Itoa(Cardinality(DOMAIN v.m)) \o " but expect length " \o
                     Itoa(Cardinality(DOMAIN expect.m)), msg))
    ELSE LET u == FirstUnequal(v.m, expect.m, order)
         IN Return(<<Helper>> \o
                   (IF u.found
                    THEN fail("got element " \o ShowInt(v.m[u.k]) \o " at key " \o u.k \o
                              " but expect " \o ShowInt(u.expectV), msg)
                    ELSE <<>>))

\* (*MapAssertion).NotEqual, with range yielding the keys of a.v in order.
Map_NotEqual(v, expect, order, msg) ==
    Return(<<Helper>> \o
           (IF /\ Cardinality(DOMAIN v.m) = Cardinality(DOMAIN expect.m)
               /\ ~FirstUnequal(v.m, expect.m, order).found
            THEN fail("got " \o ShowMap(v.m) \o " but expect not " \o ShowMap(expect.m), msg)
            ELSE <<>>))

\* The valueCount of HasSameValues after its two loops: for every value of
\* either map, its occurrences in m less those in expect.
ValueCount(m, expect) ==
    [val \in {m[k] : k \in DOMAIN m} \cup {expect[k] : k \in DOMAIN expect} |->
        Cardinality({k \in DOMAIN m : m[k] = val}) -
        Cardinality({k \in DOMAIN expect : expect[k] = val})]

\* HasSameValues comparing the sets of values.
Map_HasSameValues_as_sets(v, expect, msg) ==
    Return(<<Helper>> \o
           (IF {v.m[k] : k \in DOMAIN v.m} # {expect.m[k] : k \in DOMAIN expect.m}
            THEN fail("got " \o ShowMap(v.m) \o " does not have the same values as " \o
                      ShowMap(expect.m), msg)
            ELSE <<>>))

\* (*MapAssertion).HasSameValues
Map_HasSameValues(v, expect, msg) ==
    LET valueCount == ValueCount(v.m, expect.m)
    IN Return(<<Helper>> \o
              (IF \/ Cardinality(DOMAIN v.m) # Cardinality(DOMAIN expect.m)
                  \/ \E val \in DOMAIN valueCount : valueCount[val] # 0
               THEN fail("got " \o ShowMap(v.m) \o " does not have the same values as " \o
                         ShowMap(expect.m), msg)
               ELSE <<>>))

\* IsSubsetOf that looks at the keys only.
Map_IsSubsetOf_keys(v, expect, msg) ==
    Return(<<Helper>> \o
           (IF \E k \in DOMAIN v.m : k \notin DOMAIN expect.m
            THEN fail("got " \o ShowMap(v.m) \o " is not a subset of " \o ShowMap(expect.m), msg)
            ELSE <<>>))

\* (*MapAssertion).IsSubsetOf: the loop over a.v fails at the first key that
\* expect lacks or binds to another value; the message names no key.
Map_IsSubsetOf(v, expect, msg) ==
    Return(<<Helper>> \o
           (IF \E k \in DOMAIN v.m : k \notin DOMAIN expect.m \/ v.m[k] # expect.m[k]
            THEN fail("got " \o ShowMap(v.m) \o " is not a subset of " \o ShowMap(expect.m), msg)
            ELSE <<>>))

\* (*MapAssertion).IsSupersetOf: the loop over expect.
Map_IsSupersetOf(v, expect, msg) ==
    Return(<<Helper>> \o
           (IF \E k \in DOMAIN expect.m : k \notin DOMAIN v.m \/ v.m[k] # expect.m[k]
            THEN fail("got " \o ShowMap(v.m) \o " is not a superset of " \o ShowMap(expect.m), msg)
            ELSE <<>>))

\* ThatMap(t, v): the handle.
ThatMap(t, v) == [type |-> "MapAssertion", t |-> t, v |-> v]

\* The handle a and the argument after a call that balanced the counts of
\* the values in the argument.
AfterCall_balanced_in_place(a, expect) == [handle |-> a, arg |-> a.v]

\* The handle a and the argument after a call of a check: no method assigns
\* to a.t, to a.v, to an element of a.v or to an element of its argument;
\* the maps written to (seen, valueCount) are made inside the call.
AfterCall(a, expect) == [handle |-> a, arg |-> expect]

-----------------------------------------------------------------------------
(* The inputs the test draws from *)

\* The caller's msg arguments.
Msgs == {<<>>, <<"param (index=0)">>, <<"m1", "m2">>}
Msgs1 == {<<>>, <<"param (index=0)">>}

\* Values handed to Nil and NotNil.
NilArgs ==
    { UntypedNil,
      GoValue("int", FALSE, "3", <<>>, ""),
      GoValue("*int", TRUE, "", <<>>, ""),
      GoValue("*int", FALSE, "0", <<>>, "0xc000012120"),
      GoValue("[]string", TRUE, "", <<>>, ""),
      GoValue("[]string", FALSE, "", <<>>, "0xc000012140"),
      GoValue("map[string]string", TRUE, "", <<>>, ""),
      GoValue("map[string]string", FALSE, "", <<>>, "0xc000012160"),
      GoValue("func()", TRUE, "", <<>>, ""),
      GoValue("chan int", TRUE, "", <<>>, ""),
      GoValue("unsafe.Pointer", TRUE, "", <<>>, ""),
      GoValue("assert_test.Pair", FALSE, "{0 0}", <<>>, "") }

\* Panic payloads: strings, an error, a []string.
Payloads ==
    { [kind |-> "string", text |-> <<"a", "b">>],
      [kind |-> "string", text |-> SUCCESS],
      [kind |-> "error", text |-> <<"a", "b">>],
      [kind |-> "error", text |-> SUCCESS],
      [kind |-> "[]string", text |-> << <<"a">>, <<"b">> >>] }

\* Functions under test.
Fns == {Fn(FALSE, [kind |-> "string", text |-> <<>>])} \cup {Fn(TRUE, p) : p \in Payloads}

\* Regular expressions: a literal, a group and a wildcard, unclosed and
\* unopened parentheses.
Exprs == { <<"a">>, <<"(", "a", ")", ".">>, <<"S">>, <<"a", "(">>, <<")">> }

\* Values wrapped by That and handed to its checks.
Int0 == GoValue("int", FALSE, "0", <<>>, "")
Str0 == GoValue("string", FALSE, "0", <<>>, "")
Str1 == GoValue("string", FALSE, "1", <<>>, "")
SliceA == GoValue("[]string", FALSE, "", <<"a">>, "0xc000012140")
SliceA2 == GoValue("[]string", FALSE, "", <<"a">>, "0xc000012180")
NewInt == GoValue("*int", FALSE, "0", <<>>, "0xc000012120")
NilPtrInt == GoValue("*int", TRUE, "", <<>>, "")
Tree0 == GoValue("*assert_test.Tree", FALSE, "", <<>>, "0xc0000121a0")
Tree1 == GoValue("*assert_test.Tree", FALSE, "", <<"1">>, "0xc0000121c0")
NilTree == GoValue("*assert_test.Tree", TRUE, "", <<>>, "")
NodeV == GoValue("*assert_test.Node", FALSE, "", <<>>, "0xc0000121e0")
\* A value of a type whose Has and Contains take no argument:
\* type Flag struct{}; func (f *Flag) Has() bool.
FlagV == GoValue("*assert_test.Flag", FALSE, "", <<>>, "0xc0000121f0")
ErrV == GoValue("*errors.errorString", FALSE, "error", <<>>, "0xc000012200")
PtrError == GoValue("*error", TRUE, "", <<>>, "")
PtrReader == GoValue("*io.Reader", TRUE, "", <<>>, "")

EqualGots == {Int0, SliceA, UntypedNil}
EqualExpects == {Int0, Str0, SliceA2, UntypedNil}
TypeGots == {NewInt, ErrV, UntypedNil}
TypeExpects == {NilPtrInt, PtrError, PtrReader, Int0, UntypedNil}
HasGots == {Int0, NodeV, FlagV, Tree0, Tree1, NilTree, UntypedNil}
HasExpects == {Str1, Int0, UntypedNil}

\* Strings under test and their arguments.
Strs == {<<>>, <<"a", "b">>}
SubStrs == {<<>>, <<"a">>, <<"b">>}
Lengths == {0, 2}

\* The values looked for in a sequence, and the arguments handed as the
\* sequence: a string, nil, and slices of strings, of ints and of
\* interface{} values.
Int1 == GoValue("int", FALSE, "1", <<>>, "")
Int2 == GoValue("int", FALSE, "2", <<>>, "")
InSliceGots == {Int1, Str1, UntypedNil}
InSliceExpects ==
    { Str1, UntypedNil,
      GoSeq("[]string", <<Str1>>), GoSeq("[]string", <<Str0>>),
      GoSeq("[]int", <<>>), GoSeq("[]int", <<Int2, Int1>>), GoSeq("[]int", <<Int2>>),
      GoSeq("[]interface {}", <<Int1>>), GoSeq("[]interface {}", <<UntypedNil, Str0>>) }

\* The JSON texts: valid ones, two of them the same array spaced differently,
\* and invalid ones.
JsonTexts ==
    { <<>>, <<"1">>, <<"1", "2">>, <<"x">>,
      <<"[", "1", ",", "2", "]">>, <<"[", "1", ",", " ", "2", "]">>,
      <<"[", "2", ",", "1", "]">>, <<"[", "1">>, <<"[", "1", "]", "x">> }

\* The slices: the nil slice and every slice of up to MaxLen elements.
SliceElems == 1..3
NilSlice == GoSlice(TRUE, <<>>)
Slices ==
    {NilSlice} \cup
    {GoSlice(FALSE, elems) : elems \in UNION {[1..n -> SliceElems] : n \in 0..MaxLen}}

\* The predicates handed to All, Any and None, each the set of the elements
\* it is true of.
Preds == SUBSET SliceElems

\* The numbers: values of int8 and of uint8, the ends of both ranges among
\* them.
Int8s == {-128, -2, -1, 0, 1, 2, 127}
Uint8s == {0, 1, 3, 5, 255}
ValuesOf(type) == IF type = "uint8" THEN Uint8s ELSE Int8s
NumberTypes == {"int8", "uint8"}

\* The maps: the nil map and every map of up to MaxLen entries.
MapKeys == {"a", "b", "x", "y"}
MapValues == {1, 2}
NilMap == GoMap(TRUE, [k \in {} |-> 0])
Maps ==
    {NilMap} \cup
    {GoMap(FALSE, m) :
        m \in UNION {[K -> MapValues] : K \in {K \in SUBSET MapKeys : Cardinality(K) <= MaxLen}}}

\* The orders in which range can yield the keys of a map.
Orders(m) ==
    {order \in [1..Cardinality(DOMAIN m) -> DOMAIN m] :
        \A i, j \in 1..Cardinality(DOMAIN m) : order[i] = order[j] => i = j}

-----------------------------------------------------------------------------
(* The test: one call after another on the same reporter *)

\* A call of a check: the check, the value under test (or first argument),
\* the further argument, the msg strings.
Call(op, x, y, msg) == [op |-> op, x |-> x, y |-> y, msg |-> msg]

NoCall == Call("", "-", "-", <<>>)

\* What a call does.
Run(c) ==
    CASE c.op = "True" -> True(c.x, c.msg)
      [] c.op = "False" -> False(c.x, c.msg)
      [] c.op = "Nil" -> Nil(c.x, c.msg)
      [] c.op = "NotNil" -> NotNil(c.x, c.msg)
      [] c.op = "Panic" -> Panic(c.x, c.y, c.msg)
      [] c.op = "That.Equal" -> That_Equal(c.x, c.y, c.msg)
      [] c.op = "That.NotEqual" -> That_NotEqual(c.x, c.y, c.msg)
      [] c.op = "That.Same" -> That_Same(c.x, c.y, c.msg)
      [] c.op = "That.NotSame" -> That_NotSame(c.x, c.y, c.msg)
      [] c.op = "That.TypeOf" -> That_TypeOf(c.x, c.y, c.msg)
      [] c.op = "That.Implements" -> That_Implements(c.x, c.y, c.msg)
      [] c.op = "That.Has" -> That_Has(c.x, c.y, c.msg)
      [] c.op = "That.Contains" -> That_Contains(c.x, c.y, c.msg)
      [] c.op = "String.Length" -> String_Length(c.x, c.y, c.msg)
      [] c.op = "String.Equal" -> String_Equal(c.x, c.y, c.msg)
      [] c.op = "String.NotEqual" -> String_NotEqual(c.x, c.y, c.msg)
      [] c.op = "String.Matches" -> String_Matches(c.x, c.y, c.msg)
      [] c.op = "String.HasPrefix" -> String_HasPrefix(c.x, c.y, c.msg)
      [] c.op = "String.HasSuffix" -> String_HasSuffix(c.x, c.y, c.msg)
      [] c.op = "String.Contains" -> String_Contains(c.x, c.y, c.msg)
      [] c.op = "String.IsEmpty" -> String_IsEmpty(c.x, c.msg)
      [] c.op = "String.IsNotEmpty" -> String_IsNotEmpty(c.x, c.msg)
      [] c.op = "Error.IsNil" -> Error_IsNil(c.x, c.msg)
      [] c.op = "Error.IsNotNil" -> Error_IsNotNil(c.x, c.msg)
      [] c.op = "Error.Is" -> Error_Is(c.x, c.y, c.msg)
      [] c.op = "Error.IsNot" -> Error_IsNot(c.x, c.y, c.msg)
      [] c.op = "Error.As" -> Error_As(c.x, c.y, c.msg)
      [] c.op = "Error.ContainsMessage" -> Error_ContainsMessage(c.x, c.y, c.msg)
      [] c.op = "Error.Matches" -> Error_Matches(c.x, c.y, c.msg)

\* The reporter's log of the i-th check of the test: which check called
\* what.  The texts of the latest check's calls are in last.out.
Stamp(tr, i) == [k \in 1..Len(tr) |-> [call |-> i, kind |-> tr[k].kind]]

Init ==
    /\ reporter = <<>>
    /\ last = [call |-> NoCall, out |-> Return(<<>>), holds |-> TRUE]
    /\ verdicts = <<>>
    /\ halted = FALSE
    /\ handle = <<>> /\ arg = <<>> /\ given = <<>> /\ threads = <<>>

\* The test goes on to its next call: no panic has unwound it, and it has
\* calls left.
CanCall == ~halted /\ Len(verdicts) < MaxChecks

\* The test calls a check whose condition, as documented, is holds.  A panic
\* that leaves the check unwinds the test: nothing after it runs.
Do(call, holds) ==
    LET out == Run(call)
    IN /\ last' = [call |-> call, out |-> out, holds |-> holds]
       /\ reporter' = reporter \o Stamp(out.trace, Len(verdicts) + 1)
       /\ verdicts' = Append(verdicts, holds)
       /\ halted' = out.panicked
       /\ UNCHANGED kept

CallTrue ==
    \E got \in BOOLEAN, msg \in Msgs :
        /\ CanCall
        /\ Do(Call("True", got, "-", msg), got)

CallFalse ==
    \E got \in BOOLEAN, msg \in Msgs :
        /\ CanCall
        /\ Do(Call("False", got, "-", msg), ~got)

\* A value is nil: it is the untyped nil, or the nil of a nilable type.
IsNilValue(got) == got.isnil

CallNil ==
    \E got \in NilArgs, msg \in Msgs1 :
        /\ CanCall
        /\ Do(Call("Nil", got, "-", msg), IsNilValue(got))

CallNotNil ==
    \E got \in NilArgs, msg \in Msgs1 :
        /\ CanCall
        /\ Do(Call("NotNil", got, "-", msg), ~IsNilValue(got))

\* A text matches a regular expression.
Matched(text, expr) == CompileOk(expr) /\ Search(Atoms(expr), text)

\* Panic's condition: fn panics and the payload's text matches expr.
PanicHolds(fn, expr) == fn.panics /\ Matched(Sprint(fn.payload), expr)

CallPanic ==
    \E fn \in Fns, expr \in Exprs, msg \in Msgs1 :
        /\ CanCall
        /\ Do(Call("Panic", fn, expr, msg), PanicHolds(fn, expr))

CallThatEqual ==
    \E v \in EqualGots, expect \in EqualExpects, msg \in Msgs1 :
        /\ CanCall
        /\ Do(Call("That.Equal", v, expect, msg), DeepEqual(v, expect))

CallThatNotEqual ==
    \E v \in EqualGots, expect \in EqualExpects, msg \in Msgs1 :
        /\ CanCall
        /\ Do(Call("That.NotEqual", v, expect, msg), ~DeepEqual(v, expect))

\* v == expect has a result, and it is true.
SameHolds(v, expect) == InterfaceEq(v, expect).ok /\ InterfaceEq(v, expect).eq

\* v == expect has a result, and it is false.
NotSameHolds(v, expect) == InterfaceEq(v, expect).ok /\ ~InterfaceEq(v, expect).eq

CallThatSame ==
    \E v \in EqualGots, expect \in EqualExpects, msg \in Msgs1 :
        /\ CanCall
        /\ Do(Call("That.Same", v, expect, msg), SameHolds(v, expect))

CallThatNotSame ==
    \E v \in EqualGots, expect \in EqualExpects, msg \in Msgs1 :
        /\ CanCall
        /\ Do(Call("That.NotSame", v, expect, msg), NotSameHolds(v, expect))

\* The type expect stands for: the interface a pointer to an interface
\* points to, else its own type.
ExpectedType(expect) ==
    IF KindOf(expect.type) = "Ptr" /\ KindOf(Elem(expect.type)) = "Interface"
    THEN Elem(expect.type) ELSE expect.type

\* TypeOf's condition: the type of v is assignable to the expected type.
TypeOfHolds(v, expect) ==
    /\ v.type # NoType
    /\ expect.type # NoType
    /\ AssignableTo(v.type, ExpectedType(expect))

\* Implements' condition: expect stands for an interface type, and the type
\* of v implements it.
ImplementsHolds(v, expect) ==
    /\ v.type # NoType
    /\ KindOf(ExpectedType(expect)) = "Interface"
    /\ TypeImplements(v.type, ExpectedType(expect))

CallThatTypeOf ==
    \E v \in TypeGots, expect \in TypeExpects, msg \in Msgs1 :
        /\ CanCall
        /\ Do(Call("That.TypeOf", v, expect, msg), TypeOfHolds(v, expect))

CallThatImplements ==
    \E v \in TypeGots, expect \in TypeExpects, msg \in Msgs1 :
        /\ CanCall
        /\ Do(Call("That.Implements", v, expect, msg), ImplementsHolds(v, expect))

\* Has' and Contains' condition: v has the method, returning only a bool,
\* and the method returns true on expect.
ByMethodHolds(name, v, expect) ==
    /\ v.type # "<nil>"
    /\ ~v.isnil
    /\ MethodByName(v.type, name).found
    /\ MethodByName(v.type, name).in = <<"string">>
    /\ MethodByName(v.type, name).out = <<"bool">>
    /\ expect.type = "string"
    /\ TreeHas(v, expect)

CallThatHas ==
    \E v \in HasGots, expect \in HasExpects, msg \in Msgs1 :
        /\ CanCall
        /\ Do(Call("That.Has", v, expect, msg), ByMethodHolds("Has", v, expect))

CallThatContains ==
    \E v \in HasGots, expect \in HasExpects, msg \in Msgs1 :
        /\ CanCall
        /\ Do(Call("That.Contains", v, expect, msg), ByMethodHolds("Contains", v, expect))

CallStringLength ==
    \E v \in Strs, length \in Lengths, msg \in Msgs1 :
        /\ CanCall
        /\ Do(Call("String.Length", v, length, msg), Len(v) = length)

CallStringEqual ==
    \E v \in Strs, expect \in Strs, msg \in Msgs1 :
        /\ CanCall
        /\ Do(Call("String.Equal", v, expect, msg), v = expect)

CallStringNotEqual ==
    \E v \in Strs, expect \in Strs, msg \in Msgs1 :
        /\ CanCall
        /\ Do(Call("String.NotEqual", v, expect, msg), v # expect)

CallStringMatches ==
    \E v \in Strs, expr \in Exprs, msg \in Msgs1 :
        /\ CanCall
        /\ Do(Call("String.Matches", v, expr, msg), Matched(v, expr))

CallStringHasPrefix ==
    \E v \in Strs, prefix \in SubStrs, msg \in Msgs1 :
        /\ CanCall
        /\ Do(Call("String.HasPrefix", v, prefix, msg), HasPrefixStr(v, prefix))

CallStringHasSuffix ==
    \E v \in Strs, suffix \in SubStrs, msg \in Msgs1 :
        /\ CanCall
        /\ Do(Call("String.HasSuffix", v, suffix, msg), HasSuffixStr(v, suffix))

CallStringContains ==
    \E v \in Strs, substr \in SubStrs, msg \in Msgs1 :
        /\ CanCall
        /\ Do(Call("String.Contains", v, substr, msg), ContainsStr(v, substr))

CallStringIsEmpty ==
    \E v \in Strs, msg \in Msgs1 :
        /\ CanCall
        /\ Do(Call("String.IsEmpty", v, "-", msg), v = <<>>)

CallStringIsNotEmpty ==
    \E v \in Strs, msg \in Msgs1 :
        /\ CanCall
        /\ Do(Call("String.IsNotEmpty", v, "-", msg), v # <<>>)

CallErrorIsNil ==
    \E v \in Errs, msg \in Msgs1 :
        /\ CanCall
        /\ Do(Call("Error.IsNil", v, "-", msg), v = NilError)

CallErrorIsNotNil ==
    \E v \in Errs, msg \in Msgs1 :
        /\ CanCall
        /\ Do(Call("Error.IsNotNil", v, "-", msg), v # NilError)

CallErrorIs ==
    \E v \in Errs, target \in Errs, msg \in Msgs1 :
        /\ CanCall
        /\ Do(Call("Error.Is", v, target, msg), errors_Is(v, target))

CallErrorIsNot ==
    \E v \in Errs, target \in Errs, msg \in Msgs1 :
        /\ CanCall
        /\ Do(Call("Error.IsNot", v, target, msg), ~errors_Is(v, target))

\* The targets handed to As: a pointer to an error variable, and nil with
\* the nil error.
AsTargets(v) == {PtrError, PtrReader} \cup (IF v = NilError THEN {UntypedNil} ELSE {})

\* The error or an error it wraps can be viewed as the type target points
\* to: every error is an error, none of them is an io.Reader.
ViewableAs(v, target) == v # NilError /\ Elem(target.type) \in {"error", "interface {}"}

CallErrorAs ==
    \E v \in Errs, msg \in Msgs1 :
        \E target \in AsTargets(v) :
            /\ CanCall
            /\ Do(Call("Error.As", v, target, msg), ViewableAs(v, target))

CallErrorContainsMessage ==
    \E v \in {NilError, ErrAB, ErrWrap}, substring \in SubStrs, msg \in Msgs1 :
        /\ CanCall
        /\ Do(Call("Error.ContainsMessage", v, substring, msg),
              v # NilError /\ ContainsStr(v.text, substring))

CallErrorMatches ==
    \E v \in {NilError, ErrAB}, expr \in Exprs, msg \in Msgs1 :
        /\ CanCall
        /\ Do(Call("Error.Matches", v, expr, msg),
              v # NilError /\ Matched(v.text, expr))

Next ==
    \/ CallTrue
    \/ CallFalse
    \/ CallNil
    \/ CallNotNil
    \/ CallPanic
    \/ CallThatEqual
    \/ CallThatNotEqual
    \/ CallThatSame
    \/ CallThatNotSame
    \/ CallThatTypeOf
    \/ CallThatImplements
    \/ CallThatHas
    \/ CallThatContains
    \/ CallStringLength
    \/ CallStringEqual
    \/ CallStringNotEqual
    \/ CallStringMatches
    \/ CallStringHasPrefix
    \/ CallStringHasSuffix
    \/ CallStringContains
    \/ CallStringIsEmpty
    \/ CallStringIsNotEmpty
    \/ CallErrorIsNil
    \/ CallErrorIsNotNil
    \/ CallErrorIs
    \/ CallErrorIsNot
    \/ CallErrorAs
    \/ CallErrorContainsMessage
    \/ CallErrorMatches

Spec == Init /\ [][Next]_vars

-----------------------------------------------------------------------------
(* The test of one check on data: a single call on a fresh reporter *)

\* The test has not made its call yet.
CanCallOnce == ~halted /\ verdicts = <<>>

\* What a call of a check on data does.
RunData(c) ==
    CASE c.op = "String.JsonEqual" -> String_JsonEqual(c.x, c.y, c.msg)
      [] c.op = "Slice.HasPrefix" -> Slice_HasPrefix(c.x, c.y, c.msg)
      [] c.op = "Slice.HasSuffix" -> Slice_HasSuffix(c.x, c.y, c.msg)
      [] c.op = "Slice.SubSlice" -> Slice_SubSlice(c.x, c.y, c.msg)
      [] c.op = "Slice.IsIncreasing" -> Slice_IsIncreasing(c.x, c.msg)
      [] c.op = "Slice.IsNonIncreasing" -> Slice_IsNonIncreasing(c.x, c.msg)
      [] c.op = "Slice.IsDecreasing" -> Slice_IsDecreasing(c.x, c.msg)
      [] c.op = "Slice.IsNonDecreasing" -> Slice_IsNonDecreasing(c.x, c.msg)
      [] c.op = "Slice.IsSorted" -> Slice_IsSorted(c.x, c.msg)
      [] c.op = "Slice.IsSortedDescending" -> Slice_IsSortedDescending(c.x, c.msg)
      [] c.op = "Number.Between" -> Number_Between(c.x, c.y[1], c.y[2], c.msg)
      [] c.op = "Number.NotBetween" -> Number_NotBetween(c.x, c.y[1], c.y[2], c.msg)
      [] c.op = "Number.InDelta" -> Number_InDelta(c.x, c.y[1], c.y[2], c.msg)
      [] c.op = "Map.Equal" -> Map_Equal(c.x, c.y[1], c.y[2], c.msg)
      [] c.op = "Map.NotEqual" -> Map_NotEqual(c.x, c.y[1], c.y[2], c.msg)
      [] c.op = "Map.HasSameValues" -> Map_HasSameValues(c.x, c.y, c.msg)

\* The test calls a check on data whose condition, as documented, is holds.
DoData(call, holds) ==
    LET out == RunData(call)
    IN /\ last' = [call |-> call, out |-> out, holds |-> holds]
       /\ reporter' = reporter \o Stamp(out.trace, Len(verdicts) + 1)
       /\ verdicts' = Append(verdicts, holds)
       /\ halted' = out.panicked
       /\ UNCHANGED kept

\* Both texts are JSON and denote the same tree.
JsonSame(v, expect) ==
    LET gotJson == Unmarshal(v)
        expectJson == Unmarshal(expect)
    IN gotJson.ok /\ expectJson.ok /\ gotJson.tree = expectJson.tree

CallStringJsonEqual ==
    /\ CanCallOnce
    /\ \E v \in JsonTexts, expect \in JsonTexts, msg \in Msgs1 :
           DoData(Call("String.JsonEqual", v, expect, msg), JsonSame(v, expect))

\* sub occurs in s at offset i, counted from 0.
OccursAt(s, sub, i) ==
    /\ i >= 0
    /\ i + Len(sub) <= Len(s)
    /\ \A j \in 1..Len(sub) : s[i + j] = sub[j]

CallSliceHasPrefix ==
    /\ CanCallOnce
    /\ \E v \in Slices, prefix \in Slices, msg \in Msgs1 :
           DoData(Call("Slice.HasPrefix", v, prefix, msg), OccursAt(v.elems, prefix.elems, 0))

CallSliceHasSuffix ==
    /\ CanCallOnce
    /\ \E v \in Slices, suffix \in Slices, msg \in Msgs1 :
           DoData(Call("Slice.HasSuffix", v, suffix, msg),
                  OccursAt(v.elems, suffix.elems, Len(v.elems) - Len(suffix.elems)))

CallSliceSubSlice ==
    /\ CanCallOnce
    /\ \E v \in Slices, sub \in Slices, msg \in Msgs1 :
           DoData(Call("Slice.SubSlice", v, sub, msg),
                  \E i \in 0..Len(v.elems) : OccursAt(v.elems, sub.elems, i))

\* Every element of s is in the relation rel to the one after it.
Pairwise(s, rel) == Pairs(s, rel) = 1..(Len(s) - 1)

CallSliceIsIncreasing ==
    /\ CanCallOnce
    /\ \E v \in Slices, msg \in Msgs1 :
           DoData(Call("Slice.IsIncreasing", v, "-", msg),
                  Pairwise(v.elems, "<"))

CallSliceIsNonIncreasing ==
    /\ CanCallOnce
    /\ \E v \in Slices, msg \in Msgs1 :
           DoData(Call("Slice.IsNonIncreasing", v, "-", msg),
                  Pairwise(v.elems, ">="))

CallSliceIsDecreasing ==
    /\ CanCallOnce
    /\ \E v \in Slices, msg \in Msgs1 :
           DoData(Call("Slice.IsDecreasing", v, "-", msg),
                  Pairwise(v.elems, ">"))

CallSliceIsNonDecreasing ==
    /\ CanCallOnce
    /\ \E v \in Slices, msg \in Msgs1 :
           DoData(Call("Slice.IsNonDecreasing", v, "-", msg),
                  Pairwise(v.elems, "<="))

CallSliceIsSorted ==
    /\ CanCallOnce
    /\ \E v \in Slices, msg \in Msgs1 :
           DoData(Call("Slice.IsSorted", v, "-", msg),
                  Pairwise(v.elems, "<="))

CallSliceIsSortedDescending ==
    /\ CanCallOnce
    /\ \E v \in Slices, msg \in Msgs1 :
           DoData(Call("Slice.IsSortedDescending", v, "-", msg),
                  Pairwise(v.elems, ">="))

CallNumberBetween ==
    /\ CanCallOnce
    /\ \E type \in NumberTypes, msg \in Msgs1 :
       \E n \in ValuesOf(type), lower \in ValuesOf(type), upper \in ValuesOf(type) :
           DoData(Call("Number.Between", GoNumber(type, n), <<lower, upper>>, msg),
                  lower <= n /\ n <= upper)

CallNumberNotBetween ==
    /\ CanCallOnce
    /\ \E type \in NumberTypes, msg \in Msgs1 :
       \E n \in ValuesOf(type), lower \in ValuesOf(type), upper \in ValuesOf(type) :
           DoData(Call("Number.NotBetween", GoNumber(type, n), <<lower, upper>>, msg),
                  ~(lower <= n /\ n <= upper))

\* The distance between two integers.
Distance(n, expect) == IF n >= expect THEN n - expect ELSE expect - n

CallNumberInDelta ==
    /\ CanCallOnce
    /\ \E type \in NumberTypes, msg \in Msgs1 :
       \E n \in ValuesOf(type), expect \in ValuesOf(type), delta \in ValuesOf(type) :
           DoData(Call("Number.InDelta", GoNumber(type, n), <<expect, delta>>, msg),
                  Distance(n, expect) <= delta)

CallMapEqual ==
    /\ CanCallOnce
    /\ \E v \in Maps, expect \in Maps, msg \in Msgs1 :
       \E order \in Orders(v.m) :
           DoData(Call("Map.Equal", v, <<expect, order>>, msg), v.m = expect.m)

CallMapNotEqual ==
    /\ CanCallOnce
    /\ \E v \in Maps, expect \in Maps, msg \in Msgs1 :
       \E order \in Orders(v.m) :
           DoData(Call("Map.NotEqual", v, <<expect, order>>, msg), v.m # expect.m)

\* The number of keys that m binds to val.
Occurrences(m, val) == Cardinality({k \in DOMAIN m : m[k] = val})

\* The two maps hold the same values, each as often.
SameValues(m, expect) == \A val \in MapValues : Occurrences(m, val) = Occurrences(expect, val)

CallMapHasSameValues ==
    /\ CanCallOnce
    /\ \E v \in Maps, expect \in Maps, msg \in Msgs1 :
           DoData(Call("Map.HasSameValues", v, expect, msg), SameValues(v.m, expect.m))

NextData ==
    \/ CallStringJsonEqual
    \/ CallSliceHasPrefix
    \/ CallSliceHasSuffix
    \/ CallSliceSubSlice
    \/ CallSliceIsIncreasing
    \/ CallSliceIsNonIncreasing
    \/ CallSliceIsDecreasing
    \/ CallSliceIsNonDecreasing
    \/ CallSliceIsSorted
    \/ CallSliceIsSortedDescending
    \/ CallNumberBetween
    \/ CallNumberNotBetween
    \/ CallNumberInDelta
    \/ CallMapEqual
    \/ CallMapNotEqual
    \/ CallMapHasSameValues

SpecData == Init /\ [][NextData]_vars

-----------------------------------------------------------------------------
(* The test of one check of membership or containment: a single call on a  *)
(* fresh reporter                                                          *)

\* What a call of a check of membership or containment does.
RunMember(c) ==
    CASE c.op = "That.InSlice" -> That_InSlice(c.x, c.y, c.msg)
      [] c.op = "That.NotInSlice" -> That_NotInSlice(c.x, c.y, c.msg)
      [] c.op = "Slice.NotSubSlice" -> Slice_NotSubSlice(c.x, c.y, c.msg)
      [] c.op = "Slice.All" -> Slice_All(c.x, c.y, c.msg)
      [] c.op = "Slice.Any" -> Slice_Any(c.x, c.y, c.msg)
      [] c.op = "Slice.None" -> Slice_None(c.x, c.y, c.msg)
      [] c.op = "Map.IsSubsetOf" -> Map_IsSubsetOf(c.x, c.y, c.msg)
      [] c.op = "Map.IsSupersetOf" -> Map_IsSupersetOf(c.x, c.y, c.msg)

\* The test makes its one call.
DoMember(call, holds) ==
    LET out == RunMember(call)
    IN /\ last' = [call |-> call, out |-> out, holds |-> holds]
       /\ reporter' = reporter \o Stamp(out.trace, Len(verdicts) + 1)
       /\ verdicts' = Append(verdicts, holds)
       /\ halted' = out.panicked
       /\ UNCHANGED kept

\* expect is a sequence.
IsSequence(expect) == KindOf(expect.type) \in {"Array", "Slice"}

CallThatInSlice ==
    /\ CanCallOnce
    /\ \E v \in InSliceGots, expect \in InSliceExpects, msg \in Msgs1 :
           DoMember(Call("That.InSlice", v, expect, msg),
                  IsSequence(expect) /\ InItems(v, expect))

CallThatNotInSlice ==
    /\ CanCallOnce
    /\ \E v \in InSliceGots, expect \in InSliceExpects, msg \in Msgs1 :
           DoMember(Call("That.NotInSlice", v, expect, msg),
                  /\ IsSequence(expect)
                  /\ TypeOfValue(v) = Elem(expect.type)
                  /\ ~InItems(v, expect))

CallSliceNotSubSlice ==
    /\ CanCallOnce
    /\ \E v \in Slices, sub \in Slices, msg \in Msgs1 :
           DoMember(Call("Slice.NotSubSlice", v, sub, msg),
                  ~\E i \in 0..Len(v.elems) : OccursAt(v.elems, sub.elems, i))

\* The elements of s the predicate is true of.
Satisfying(s, fn) == {i \in 1..Len(s) : s[i] \in fn}

CallSliceAll ==
    /\ CanCallOnce
    /\ \E v \in Slices, fn \in Preds, msg \in Msgs1 :
           DoMember(Call("Slice.All", v, fn, msg),
                  Satisfying(v.elems, fn) = 1..Len(v.elems))

CallSliceAny ==
    /\ CanCallOnce
    /\ \E v \in Slices, fn \in Preds, msg \in Msgs1 :
           DoMember(Call("Slice.Any", v, fn, msg), Satisfying(v.elems, fn) # {})

CallSliceNone ==
    /\ CanCallOnce
    /\ \E v \in Slices, fn \in Preds, msg \in Msgs1 :
           DoMember(Call("Slice.None", v, fn, msg), Satisfying(v.elems, fn) = {})

\* Every key-value pair of m is a pair of expect.
PairsWithin(m, expect) == \A k \in DOMAIN m : k \in DOMAIN expect /\ m[k] = expect[k]

CallMapIsSubsetOf ==
    /\ CanCallOnce
    /\ \E v \in Maps, expect \in Maps, msg \in Msgs1 :
           DoMember(Call("Map.IsSubsetOf", v, expect, msg), PairsWithin(v.m, expect.m))

CallMapIsSupersetOf ==
    /\ CanCallOnce
    /\ \E v \in Maps, expect \in Maps, msg \in Msgs1 :
           DoMember(Call("Map.IsSupersetOf", v, expect, msg), PairsWithin(expect.m, v.m))

NextMember ==
    \/ CallThatInSlice
    \/ CallThatNotInSlice
    \/ CallSliceNotSubSlice
    \/ CallSliceAll
    \/ CallSliceAny
    \/ CallSliceNone
    \/ CallMapIsSubsetOf
    \/ CallMapIsSupersetOf

SpecMember == Init /\ [][NextMember]_vars

-----------------------------------------------------------------------------
(* The test that keeps one handle and calls checks on it, each with the     *)
(* same argument                                                            *)

\* The arguments: slices and maps of up to two elements.
ArgSlices == {NilSlice, GoSlice(FALSE, <<1>>), GoSlice(FALSE, <<1, 2>>), GoSlice(FALSE, <<2, 3>>)}
ArgMaps ==
    {NilMap, GoMap(FALSE, [k \in {"a"} |-> 1]), GoMap(FALSE, [k \in {"a", "b"} |-> 1]),
     GoMap(FALSE, [k \in {"a", "b"} |-> IF k = "a" THEN 1 ELSE 2])}

InitHandle ==
    /\ reporter = <<>>
    /\ last = [call |-> NoCall, out |-> Return(<<>>), holds |-> TRUE]
    /\ verdicts = <<>>
    /\ halted = FALSE
    /\ threads = <<>>
    /\ \/ \E v \in Slices, expect \in ArgSlices :
              /\ handle = ThatSlice("t", v)
              /\ arg = expect
              /\ given = [t |-> "t", v |-> v, arg |-> expect]
       \/ \E v \in Maps, expect \in ArgMaps :
              /\ handle = ThatMap("t", v)
              /\ arg = expect
              /\ given = [t |-> "t", v |-> v, arg |-> expect]

\* The test calls the check op on its handle; out is what the call does.
CallOn(op, out, holds) ==
    /\ last' = [call |-> Call(op, handle.v, arg, <<>>), out |-> out, holds |-> holds]
    /\ reporter' = reporter \o Stamp(out.trace, Len(verdicts) + 1)
    /\ verdicts' = Append(verdicts, [op |-> op, failed |-> Errors(out.trace) # <<>>,
                                     panicked |-> out.panicked])
    /\ halted' = out.panicked
    /\ handle' = AfterCall(handle, arg).handle
    /\ arg' = AfterCall(handle, arg).arg
    /\ UNCHANGED <<given, threads>>

OnSliceSubSlice ==
    /\ CanCall /\ handle.type = "SliceAssertion"
    /\ CallOn("Slice.SubSlice", Slice_SubSlice(handle.v, arg, <<>>),
              \E i \in 0..Len(handle.v.elems) : OccursAt(handle.v.elems, arg.elems, i))

OnSliceHasPrefix ==
    /\ CanCall /\ handle.type = "SliceAssertion"
    /\ CallOn("Slice.HasPrefix", Slice_HasPrefix(handle.v, arg, <<>>),
              OccursAt(handle.v.elems, arg.elems, 0))

OnMapEqual ==
    /\ CanCall /\ handle.type = "MapAssertion"
    /\ \E order \in Orders(handle.v.m) :
           CallOn("Map.Equal", Map_Equal(handle.v, arg, order, <<>>), handle.v.m = arg.m)

OnMapHasSameValues ==
    /\ CanCall /\ handle.type = "MapAssertion"
    /\ CallOn("Map.HasSameValues", Map_HasSameValues(handle.v, arg, <<>>),
              SameValues(handle.v.m, arg.m))

NextHandle ==
    \/ OnSliceSubSlice
    \/ OnSliceHasPrefix
    \/ OnMapEqual
    \/ OnMapHasSameValues

SpecHandle == InitHandle /\ [][NextHandle]_vars

-----------------------------------------------------------------------------
(* Two threads, each with a handle of its own on a reporter of its own, and *)
(* each calling its checks one after another.  A check computes on the      *)
(* fields of its handle and on its arguments only; what another thread can  *)
(* see of it are its calls of the reporter, one step each.                  *)

Threads == {1, 2}

\* The check a thread calls on its string.
Chained(op, y) == [op |-> op, y |-> y]
ThreadChecks ==
    {Chained("String.IsEmpty", "-"), Chained("String.HasPrefix", <<"a">>),
     Chained("String.Equal", <<"a", "b">>)}

\* The checks one thread is to call, in order.
Programs == UNION {[1..n -> ThreadChecks] : n \in 0..MaxChecks}

\* What the check c does on the string v.
RunChained(v, c) ==
    CASE c.op = "String.IsEmpty" -> String_IsEmpty(v, <<>>)
      [] c.op = "String.HasPrefix" -> String_HasPrefix(v, c.y, <<>>)
      [] c.op = "String.Equal" -> String_Equal(v, c.y, <<>>)

InitThreads ==
    /\ last = [call |-> NoCall, out |-> Return(<<>>), holds |-> TRUE]
    /\ verdicts = <<>>
    /\ halted = FALSE
    /\ arg = <<>>
    /\ reporter = [t \in {"t1", "t2"} |-> <<>>]
    /\ \E v1 \in Strs, v2 \in Strs, p1 \in Programs, p2 \in Programs :
           /\ handle = <<ThatString("t1", v1), ThatString("t2", v2)>>
           /\ threads = <<[checks |-> p1, todo |-> <<>>], [checks |-> p2, todo |-> <<>>]>>
           /\ given = <<[t |-> "t1", v |-> v1, checks |-> p1],
                        [t |-> "t2", v |-> v2, checks |-> p2]>>

\* A thread between two checks calls its next one, which calls Helper.
EnterCheck ==
    \E i \in Threads :
        /\ threads[i].todo = <<>>
        /\ threads[i].checks # <<>>
        /\ LET tr == RunChained(handle[i].v, Head(threads[i].checks)).trace
           IN /\ reporter' = [reporter EXCEPT ![ReporterOf(handle[i])] = Append(@, Head(tr))]
              /\ threads' = [threads EXCEPT ![i] = [checks |-> Tail(@.checks), todo |-> Tail(tr)]]
        /\ UNCHANGED <<last, verdicts, halted, handle, arg, given>>

\* A thread inside a check makes the check's next call of the reporter.
ReportNext ==
    \E i \in Threads :
        /\ threads[i].todo # <<>>
        /\ reporter' = [reporter EXCEPT ![ReporterOf(handle[i])] =
                                           Append(@, Head(threads[i].todo))]
        /\ threads' = [threads EXCEPT ![i].todo = Tail(@)]
        /\ UNCHANGED <<last, verdicts, halted, handle, arg, given>>

NextThreads ==
    \/ EnterCheck
    \/ ReportNext

SpecThreads == InitThreads /\ [][NextThreads]_vars

-----------------------------------------------------------------------------
(* Properties *)

\* The Error calls of the latest check.
LastErrors == Errors(last.out.trace)

\* The Error calls the reporter logged for the i-th check.
LoggedErrors(i) == SelectSeq(reporter, LAMBDA e : e.call = i /\ e.kind = "Error")

\* C1: one call of a check invokes Error zero times when the check's
\* condition holds and exactly once when it does not.
C1_ErrorOncePerFailure ==
    last.call # NoCall => Len(LastErrors) = (IF last.holds THEN 0 ELSE 1)

\* C2: a test is never halted: every check of the sequence is evaluated and
\* the reporter holds exactly one Error per failing check, in call order.
C2_FailingCheckNeverHalts ==
    /\ ~halted
    /\ \A i \in 1..Len(verdicts) : Len(LoggedErrors(i)) = (IF verdicts[i] THEN 0 ELSE 1)
    /\ \A j, k \in 1..Len(reporter) : j <= k => reporter[j].call <= reporter[k].call

\* C3: no check is fatal: every call returns to its caller normally.
C3_NoCheckPanics == ~last.out.panicked

RECURSIVE Suffixed(_, _)
\* str, then each msg string in turn after a comma and a space.
Suffixed(str, msg) ==
    IF msg = <<>> THEN str ELSE Suffixed(str \o ", " \o Head(msg), Tail(msg))

C5_MsgNeverAffectsVerdict ==
    last.call # NoCall =>
        \A m \in Msgs :
            LET o == Run([last.call EXCEPT !.msg = m])
            IN /\ o.panicked = last.out.panicked
           /\ Len(o.trace) = Len(last.out.trace)
           /\ \A k \in 1..Len(o.trace) :
           /\ o.trace[k].kind = last.out.trace[k].kind
           /\ o.trace[k].str = last.out.trace[k].str

\* Nil on a non-nil value with a msg string fails as it does without one.
C5_Witness ==
    /\ last.call.op = "Nil"
    /\ last.call.msg = <<"param (index=0)">>
    /\ Len(LastErrors) = 1
    /\ Len(Errors(Run([last.call EXCEPT !.msg = <<>>]).trace)) = 1

\* The kinds whose values can be nil.
NilableKinds == {"Chan", "Func", "Interface", "Map", "Ptr", "Slice", "UnsafePointer"}

\* C6: Nil(got) passes iff got is the untyped nil, or got is of a nilable
\* kind and its value is nil.
C6_NilPassesIff ==
    last.call.op = "Nil" =>
        (LastErrors = <<>> <=>
            \/ last.call.x.type = "<nil>"
            \/ KindOf(last.call.x.type) \in NilableKinds /\ last.call.x.isnil)

\* A typed nil pointer passes Nil.
C6_Witness ==
    /\ last.call.op = "Nil"
    /\ last.call.x = NilPtrInt
    /\ LastErrors = <<>>

\* C7: for every got, exactly one of Nil(got) and NotNil(got) reports a
\* failure.
C7_NotNilNegatesNil ==
    last.call.op \in {"Nil", "NotNil"} =>
        Len(Errors(Nil(last.call.x, last.call.msg).trace)) +
        Len(Errors(NotNil(last.call.x, last.call.msg).trace)) = 1

\* An empty, non-nil slice passes NotNil and fails Nil.
C7_Witness ==
    /\ last.call.op = "NotNil"
    /\ last.call.x = GoValue("[]string", FALSE, "", <<>>, "0xc000012140")
    /\ LastErrors = <<>>
    /\ Len(Errors(Nil(last.call.x, last.call.msg).trace)) = 1

\* C8: Panic reports "did not panic" only for an fn that did not panic,
\* whatever the payload.
C8_DidNotPanicOnlyWithoutPanic ==
    last.call.op = "Panic" =>
        ((\E k \in 1..Len(LastErrors) : LastErrors[k].str = "did not panic")
            => ~last.call.x.panics)

\* C9: Panic invokes fn exactly once, no panic of fn leaves Panic, the test
\* goes on, and the panic has become at most one Error.
C9_PanicContained ==
    last.call.op = "Panic" =>
        /\ last.out.fncalls = 1
        /\ ~last.out.panicked
        /\ ~halted
        /\ Len(LastErrors) <= 1

\* An fn that panicked, and Panic returned having reported the mismatch.
C9_Witness ==
    /\ last.call.op = "Panic"
    /\ last.call.x.panics
    /\ last.out.fncalls = 1
    /\ ~halted
    /\ Len(LastErrors) = 1

\* The check of the latest call matched a text against expr.
MatchedAgainst ==
    \/ last.call.op = "String.Matches"
    \/ last.call.op = "Error.Matches" /\ last.call.x # NilError
    \/ last.call.op = "Panic" /\ last.call.x.panics

\* C10: a pattern-matching check given an expr of invalid syntax fails with
\* the message "invalid pattern", which no non-match produces.
C10_InvalidPatternMessage ==
    MatchedAgainst =>
        /\ ~CompileOk(last.call.y) =>
           (Len(LastErrors) = 1 /\ LastErrors[1].str = "invalid pattern")
        /\ CompileOk(last.call.y) =>
           \A k \in 1..Len(LastErrors) : LastErrors[k].str # "invalid pattern"

\* C11: JsonEqual on an actual text that is not JSON fails exactly once with
\* a message that holds the text of the parse error and compares nothing; on
\* a JSON actual and an expect that is not JSON likewise with expect's parse
\* error; when both parse it passes iff the two trees are equal.
C11_JsonEqualSurfacesParseError ==
    last.call.op = "String.JsonEqual" =>
        LET got == Unmarshal(last.call.x)
            expect == Unmarshal(last.call.y)
            parts == JsonEqualFailure(last.call.x, last.call.y)
            Surfaces(err) ==
                /\ Len(LastErrors) = 1
                /\ LastErrors[1].str = Join(parts, "")
                /\ \E k \in 1..Len(parts) : parts[k] = err
        IN IF ~got.ok THEN Surfaces(got.err)
           ELSE IF ~expect.ok THEN Surfaces(expect.err)
           ELSE LastErrors = <<>> <=> got.tree = expect.tree

\* The length-mismatch failure of HasPrefix and HasSuffix.
TooLong(s, cand, end) ==
    "got length " \o Itoa(Len(s)) \o " is less than " \o end \o " length " \o Itoa(Len(cand))

\* The failure citing the element of s at Go index i that differs from want.
Differs(s, i, end, want) ==
    "got element " \o Itoa(s[i + 1]) \o " at index " \o Itoa(i) \o
    " does not match " \o end \o " element " \o Itoa(want)

\* C12: HasPrefix(p) on s passes when p is s[:k] for some 0 <= k <= len(s);
\* a longer p fails with the length mismatch and indexes nothing; any other
\* p fails citing the smallest index at which s and p differ.  HasSuffix is
\* symmetric, the index cited being the position in s.
C12_PrefixSuffix ==
    last.call.op \in {"Slice.HasPrefix", "Slice.HasSuffix"} =>
        LET s == last.call.x.elems
            cand == last.call.y.elems
            prefix == last.call.op = "Slice.HasPrefix"
            end == IF prefix THEN "prefix" ELSE "suffix"
            offset == IF prefix THEN 0 ELSE Len(s) - Len(cand)
            D == {j \in 1..Len(cand) : s[offset + j] # cand[j]}
        IN /\ ~last.out.panicked
           /\ IF Len(cand) > Len(s)
              THEN Len(LastErrors) = 1 /\ LastErrors[1].str = TooLong(s, cand, end)
              ELSE IF SubSeq(s, offset + 1, offset + Len(cand)) = cand
              THEN LastErrors = <<>>
              ELSE /\ Len(LastErrors) = 1
                   /\ LastErrors[1].str = Differs(s, offset + Min(D) - 1, end, cand[Min(D)])

\* HasSuffix fails citing an index of s that is not an index of the suffix,
\* and HasPrefix of a longer candidate fails on the lengths alone.
C12_Witness ==
    \/ /\ last.call.op = "Slice.HasSuffix"
       /\ last.call.x.elems = <<1, 2, 3>>
       /\ last.call.y.elems = <<1, 3>>
       /\ Len(LastErrors) = 1
       /\ LastErrors[1].str = "got element 2 at index 1 does not match suffix element 1"
    \/ /\ last.call.op = "Slice.HasPrefix"
       /\ last.call.x.elems = <<1>>
       /\ last.call.y.elems = <<1, 2>>
       /\ Len(LastErrors) = 1
       /\ ~last.out.panicked

\* C13: SubSlice(sub) passes iff sub occurs in s as a contiguous run; the
\* empty sub is in every slice, and a sub longer than s fails without an
\* access out of range.
C13_SubSlice ==
    last.call.op = "Slice.SubSlice" =>
        LET s == last.call.x.elems
            sub == last.call.y.elems
        IN /\ ~last.out.panicked
           /\ Len(LastErrors) <= 1
           /\ LastErrors = <<>> <=>
                  \E i \in 1..(Len(s) - Len(sub) + 1) : SubSeq(s, i, i + Len(sub) - 1) = sub

\* A sub longer than the slice, whose start is the whole slice, fails.
C13_Witness ==
    /\ last.call.op = "Slice.SubSlice"
    /\ last.call.x.elems = <<1, 2>>
    /\ last.call.y.elems = <<1, 2, 3>>
    /\ Len(LastErrors) = 1
    /\ ~last.out.panicked

\* The words between the two elements an ordering check cites.
OrderWords == {"is greater than", "is less than", "is not greater than", "is not less than"}

\* A failure citing s[i] at index i and s[i-1] at index i-1.
CitesPair(str, s, i) ==
    \E words \in OrderWords :
        str = "got element " \o Itoa(s[i + 1]) \o " at index " \o Itoa(i) \o " " \o words \o
              " " \o Itoa(s[i]) \o " at index " \o Itoa(i - 1)

\* C14: IsSorted passes iff s[i-1] <= s[i] for all 1 <= i < len(s); when it
\* fails it reports the smallest i with s[i-1] > s[i] and both elements.
\* IsSortedDescending is the mirror image with s[i-1] >= s[i].
C14_Sorted ==
    last.call.op \in {"Slice.IsSorted", "Slice.IsSortedDescending"} =>
        LET s == last.call.x.elems
            B == IF last.call.op = "Slice.IsSorted"
                 THEN {i \in 1..(Len(s) - 1) : s[i] > s[i + 1]}
                 ELSE {i \in 1..(Len(s) - 1) : s[i] < s[i + 1]}
        IN IF B = {} THEN LastErrors = <<>>
           ELSE Len(LastErrors) = 1 /\ CitesPair(LastErrors[1].str, s, Min(B))

\* IsSorted([3,1,2]) fails citing index 1.
C14_Witness ==
    /\ last.call.op = "Slice.IsSorted"
    /\ last.call.x.elems = <<3, 1, 2>>
    /\ Len(LastErrors) = 1
    /\ CitesPair(LastErrors[1].str, <<3, 1, 2>>, 1)

C16_InDeltaIsDistance ==
    last.call.op = "Number.InDelta" =>
        (LastErrors = <<>> <=>
            (IF last.call.x.n >= last.call.y[1]
             THEN last.call.x.n - last.call.y[1]
             ELSE last.call.y[1] - last.call.x.n) <= last.call.y[2])

C18_SameMultiset ==
    last.call.op = "Map.HasSameValues" =>
        LET m == last.call.x.m
            expect == last.call.y.m
        IN LastErrors = <<>> <=>
               \E f \in [DOMAIN m -> DOMAIN expect] :
                   /\ \A k \in DOMAIN expect : \E j \in DOMAIN m : f[j] = k
                   /\ \A j, k \in DOMAIN m : f[j] = f[k] => j = k
                   /\ \A k \in DOMAIN m : m[k] = expect[f[k]]

\* {a:1, b:2} has the same values as {x:2, y:1}.
C18_Witness ==
    /\ last.call.op = "Map.HasSameValues"
    /\ last.call.x.m = [k \in {"a", "b"} |-> IF k = "a" THEN 1 ELSE 2]
    /\ last.call.y.m = [k \in {"x", "y"} |-> IF k = "x" THEN 2 ELSE 1]
    /\ LastErrors = <<>>

\* C19: Equal passes iff the maps have the same size and every key of the
\* actual map is in expect with an equal value; NotEqual fails in exactly
\* those cases; so in whichever order the keys are visited.
C19_MapEqual ==
    last.call.op \in {"Map.Equal", "Map.NotEqual"} =>
        LET v == last.call.x
            expect == last.call.y[1]
            order == last.call.y[2]
            same == /\ Cardinality(DOMAIN v.m) = Cardinality(DOMAIN expect.m)
                    /\ \A k \in DOMAIN v.m : k \in DOMAIN expect.m /\ v.m[k] = expect.m[k]
        IN /\ LastErrors = <<>> <=> (same <=> last.call.op = "Map.Equal")
           /\ Errors(Map_Equal(v, expect, order, last.call.msg).trace) = <<>> <=> same
           /\ Errors(Map_NotEqual(v, expect, order, last.call.msg).trace) # <<>> <=> same

\* The nil map equals the empty map, and a map of three entries equals
\* itself whatever the order of the visit.
C19_Witness ==
    \/ /\ last.call.op = "Map.Equal"
       /\ last.call.x.isnil
       /\ ~last.call.y[1].isnil
       /\ LastErrors = <<>>
    \/ /\ last.call.op = "Map.NotEqual"
       /\ Cardinality(DOMAIN last.call.x.m) = MaxLen
       /\ last.call.y[1] = last.call.x
       /\ last.call.y[2] # [i \in 1..MaxLen |-> SortedKeys[i]]
       /\ Len(LastErrors) = 1

\* C20: Is(target) passes iff the error under test or an error it wraps is
\* target, and IsNot(target) fails in exactly those cases.
C20_IsFollowsChainOfActual ==
    /\ last.call.op = "Error.Is" =>
           (LastErrors = <<>> <=> errors_Is(last.call.x, last.call.y))
    /\ last.call.op = "Error.IsNot" =>
           (LastErrors # <<>> <=> errors_Is(last.call.x, last.call.y))

\* C21: As(target) passes iff the error under test or an error it wraps can
\* be viewed as the type of target; on a non-nil error whose chain holds no
\* error of that type it reports a failure.
C21_AsFollowsTargetType ==
    last.call.op = "Error.As" =>
        (LastErrors = <<>> <=> ViewableAs(last.call.x, last.call.y))

\* C22: Has(expect), and Contains likewise, on a value without a method of
\* that name fails with the not-found message; else on a method that does
\* not take exactly one argument and return exactly one bool it fails with
\* the wrong-signature message and never calls the method; otherwise it
\* calls the method exactly once and fails iff the method returns false.
C22_HasThreeOutcomes ==
    last.call.op \in {"That.Has", "That.Contains"} =>
        LET name == IF last.call.op = "That.Has" THEN "Has" ELSE "Contains"
            m == MethodByName(last.call.x.type, name)
        IN IF ~m.found
           THEN /\ Len(LastErrors) = 1
                /\ LastErrors[1].str =
                       "method '" \o name \o "' not found on type " \o TypeName(last.call.x)
                /\ last.out.fncalls = 0
           ELSE IF Len(m.in) # 1 \/ m.out # <<"bool">>
           THEN /\ Len(LastErrors) = 1
                /\ LastErrors[1].str = "method '" \o name \o "' must return only a bool"
                /\ last.out.fncalls = 0
           ELSE /\ last.out.fncalls = 1
                /\ LastErrors # <<>> <=> ~TreeHas(last.call.x, last.call.y)

\* The outcome of InSlice and of NotInSlice on the arguments of the latest
\* call.
InSliceErrors == Errors(That_InSlice(last.call.x, last.call.y, last.call.msg).trace)
NotInSliceErrors == Errors(That_NotInSlice(last.call.x, last.call.y, last.call.msg).trace)

\* The validation of NotInSlice in its order, and InSlice: an expect that is
\* no array or slice fails as unsupported; else NotInSlice fails on an
\* actual whose type is not the element type, without a scan, and then on an
\* element deeply equal to the actual; InSlice passes iff there is such an
\* element.
InSliceInOrder ==
    LET v == last.call.x
        expect == last.call.y
        unsupported ==
            "unsupported expect value (" \o TypeName(expect) \o ") " \o Show(expect)
        operands ==
            "(" \o TypeName(expect) \o ") " \o Show(expect)
        found == \E i \in 1..Len(expect.items) : DeepEqual(v, expect.items[i])
    IN /\ Len(InSliceErrors) <= 1 /\ Len(NotInSliceErrors) <= 1
       /\ IF KindOf(expect.type) \notin {"Array", "Slice"}
          THEN /\ Len(InSliceErrors) = 1 /\ InSliceErrors[1].str = unsupported
               /\ Len(NotInSliceErrors) = 1 /\ NotInSliceErrors[1].str = unsupported
          ELSE /\ InSliceErrors = <<>> <=> found
               /\ IF v.type # Elem(expect.type)
                  THEN /\ Len(NotInSliceErrors) = 1
                       /\ NotInSliceErrors[1].str =
                              "got type (" \o TypeString(v.type) \o
                              ") doesn't match expect type (" \o expect.type \o ")"
                  ELSE NotInSliceErrors = <<>> <=> ~found

\* C23 as stated: the validation order of NotInSlice and InSlice, and so on
\* a sequence whose element type is not the type of the actual both InSlice
\* and NotInSlice report a failure.
C23_BothFailOnOtherElementType ==
    last.call.op \in {"That.InSlice", "That.NotInSlice"} =>
        /\ InSliceInOrder
        /\ LastErrors =
               (IF last.call.op = "That.InSlice" THEN InSliceErrors ELSE NotInSliceErrors)
        /\ (/\ KindOf(last.call.y.type) \in {"Array", "Slice"}
            /\ last.call.x.type # Elem(last.call.y.type))
               => InSliceErrors # <<>> /\ NotInSliceErrors # <<>>

\* C23, amended: the validation order of NotInSlice and InSlice; on a
\* sequence whose element type is not the type of the actual NotInSlice
\* reports the type mismatch, and InSlice reports a failure unless the
\* element type is an interface type and an element holds a value deeply
\* equal to the actual.
C23_InSliceNotInSlice ==
    last.call.op \in {"That.InSlice", "That.NotInSlice"} =>
        /\ InSliceInOrder
        /\ LastErrors =
               (IF last.call.op = "That.InSlice" THEN InSliceErrors ELSE NotInSliceErrors)
        /\ (/\ KindOf(last.call.y.type) \in {"Array", "Slice"}
            /\ last.call.x.type # Elem(last.call.y.type))
               => /\ NotInSliceErrors # <<>>
                  /\ InSliceErrors = <<>> =>
                         /\ KindOf(Elem(last.call.y.type)) = "Interface"
                         /\ \E i \in 1..Len(last.call.y.items) :
                                DeepEqual(last.call.x, last.call.y.items[i])

\* The int 1 is in []interface{}{1}, whose element type is not int: InSlice
\* passes where NotInSlice reports the type mismatch.
C23_Witness ==
    /\ last.call.op = "That.InSlice"
    /\ last.call.x = Int1
    /\ last.call.y.type = "[]interface {}"
    /\ LastErrors = <<>>
    /\ Len(NotInSliceErrors) = 1

\* The Error calls of Any and of None on the slice and the predicate of the
\* latest call.
AnyErrors == Errors(Slice_Any(last.call.x, last.call.y, last.call.msg).trace)
NoneErrors == Errors(Slice_None(last.call.x, last.call.y, last.call.msg).trace)

\* C24: All(p) passes iff every element satisfies p, Any(p) iff at least
\* one does, None(p) iff none does; on a slice without elements, nil or
\* empty, All and None pass and Any fails; of Any(p) and None(p) on the same
\* slice exactly one fails; a failing All or None cites the first violating
\* element and has applied p to no later element.
C24_Quantifiers ==
    last.call.op \in {"Slice.All", "Slice.Any", "Slice.None"} =>
        LET s == last.call.x.elems
            p == last.call.y
            sat == {i \in 1..Len(s) : s[i] \in p}
            unsat == (1..Len(s)) \ sat
            first(I) == CHOOSE i \in I : \A j \in I : i <= j
        IN /\ Len(LastErrors) <= 1
           /\ (AnyErrors = <<>>) # (NoneErrors = <<>>)
           /\ last.call.op = "Slice.All" =>
                  /\ LastErrors = <<>> <=> unsat = {}
                  /\ s = <<>> => LastErrors = <<>>
                  /\ unsat # {} =>
                         /\ LastErrors[1].str = "got element " \o Itoa(s[first(unsat)]) \o
                                                " does not satisfy the condition"
                         /\ last.out.fncalls = first(unsat)
           /\ last.call.op = "Slice.Any" =>
                  /\ LastErrors = <<>> <=> sat # {}
                  /\ s = <<>> => LastErrors # <<>>
           /\ last.call.op = "Slice.None" =>
                  /\ LastErrors = <<>> <=> sat = {}
                  /\ s = <<>> => LastErrors = <<>>
                  /\ sat # {} =>
                         /\ LastErrors[1].str = "got element " \o Itoa(s[first(sat)]) \o
                                                " satisfies the condition"
                         /\ last.out.fncalls = first(sat)

\* None failed on a slice whose second element is the first the predicate
\* is true of, with a third element after it.
C24_Witness ==
    /\ last.call.op = "Slice.None"
    /\ Len(last.call.x.elems) = 3
    /\ last.call.x.elems[1] \notin last.call.y
    /\ last.call.x.elems[2] \in last.call.y
    /\ Len(LastErrors) = 1
    /\ last.out.fncalls = 2

\* C25: Helper comes before Error.  Every check calls Helper first; a check
\* that fails calls Error once, after the Helper of its own frame and, right
\* before the Error, the Helper of fail's frame; a check that calls no Error
\* calls nothing but Helper.  The reporter's log keeps that order.
C25_HelperBeforeError ==
    /\ last.call # NoCall =>
           LET tr == last.out.trace
           IN /\ tr # <<>> /\ tr[1].kind = "Helper"
              /\ Len(LastErrors) <= 1
              /\ \A k \in 1..Len(tr) :
                     tr[k].kind = "Error" =>
                         /\ k >= 3
                         /\ \A j \in 1..(k - 1) : tr[j].kind = "Helper"
              /\ LastErrors = <<>> => \A k \in 1..Len(tr) : tr[k].kind = "Helper"
    /\ \A k \in 1..Len(reporter) :
           reporter[k].kind = "Error" =>
               /\ k >= 3
               /\ reporter[k - 1].kind = "Helper" /\ reporter[k - 1].call = reporter[k].call
               /\ reporter[k - 2].kind = "Helper" /\ reporter[k - 2].call = reporter[k].call

\* ErrorAssertion.Matches failed through matches: the Helper of Matches, of
\* matches and of fail, then the one Error.
C25_Witness ==
    /\ last.call.op = "Error.Matches"
    /\ Len(last.out.trace) = 4
    /\ last.out.trace[3].kind = "Helper"
    /\ last.out.trace[4].kind = "Error"

RECURSIVE AloneTrace(_, _)
\* The reporter calls of the checks called one after another on the string
\* v by a thread that runs alone.
AloneTrace(v, checks) ==
    IF checks = <<>> THEN <<>>
    ELSE RunChained(v, Head(checks)).trace \o AloneTrace(v, Tail(checks))

\* s is the start of t.
StartOf(s, t) == Len(s) <= Len(t) /\ s = SubSeq(t, 1, Len(s))

\* C27: two handles on two reporters, their checks called by two threads in
\* any interleaving: each reporter receives the calls its handle's checks
\* make when run alone, in their order, and once its thread is through
\* exactly the Error calls of the run alone, as many and with the same
\* messages.
C27_ThreadsDoNotInterfere ==
    threads # <<>> =>
        \A i \in Threads :
            LET log == reporter[given[i].t]
                alone == AloneTrace(given[i].v, given[i].checks)
            IN /\ StartOf(log, alone)
               /\ StartOf(Errors(log), Errors(alone))
               /\ (threads[i].checks = <<>> /\ threads[i].todo = <<>>) =>
                      Errors(log) = Errors(alone)

\* Both threads are inside a check, the second one with an Error already
\* logged on its reporter, and the first is about to call Error.
C27_Witness ==
    /\ threads # <<>>
    /\ threads[1].todo # <<>> /\ threads[1].todo[Len(threads[1].todo)].kind = "Error"
    /\ threads[2].todo # <<>>
    /\ Errors(reporter["t2"]) # <<>>
    /\ reporter["t1"] # <<>>

\* C28: SubSlice and NotSubSlice are exact complements: on every slice and
\* every sub, the empty sub and a sub longer than the slice among them,
\* exactly one of the two reports a failure.
C28_SubSliceComplement ==
    last.call.op = "Slice.NotSubSlice" =>
        LET subErrors == Errors(Slice_SubSlice(last.call.x, last.call.y, last.call.msg).trace)
            notSubErrors ==
                Errors(Slice_NotSubSlice(last.call.x, last.call.y, last.call.msg).trace)
        IN /\ LastErrors = notSubErrors
           /\ (subErrors = <<>>) # (notSubErrors = <<>>)

\* The relation the words of an ordering failure state between a and b.
WordsHold(words, a, b) ==
    CASE words = "is greater than" -> a > b
      [] words = "is less than" -> a < b
      [] words = "is not greater than" -> ~(a > b)
      [] words = "is not less than" -> ~(a < b)

\* C29: the failure message of every ordering check is true of the slice:
\* it cites s[i] at an index i and s[i-1] at index i-1, both in range, and
\* the relation its words state between the two holds.
C29_OrderMessageIsTrue ==
    (/\ last.call.op \in {"Slice.IsIncreasing", "Slice.IsNonIncreasing", "Slice.IsDecreasing",
                          "Slice.IsNonDecreasing", "Slice.IsSorted",
                          "Slice.IsSortedDescending"}
     /\ LastErrors # <<>>)
        => LET s == last.call.x.elems
           IN \E i \in 1..(Len(s) - 1), words \in OrderWords :
                  /\ LastErrors[1].str =
                         "got element " \o Itoa(s[i + 1]) \o " at index " \o Itoa(i) \o " " \o
                         words \o " " \o Itoa(s[i]) \o " at index " \o Itoa(i - 1)
                  /\ WordsHold(words, s[i + 1], s[i])

\* C30: IsSubsetOf and IsSupersetOf are dual, a.IsSubsetOf(b) passing iff
\* b.IsSupersetOf(a) passes, both on key-value pairs; the map without
\* entries, nil or empty, is a subset of every map; and a.Equal(b) passes
\* iff a.IsSubsetOf(b) and a.IsSupersetOf(b) both pass.
C30_SubsetSupersetDual ==
    last.call.op \in {"Map.IsSubsetOf", "Map.IsSupersetOf"} =>
        LET a == last.call.x
            b == last.call.y
            msg == last.call.msg
            passes(out) == Errors(out.trace) = <<>> /\ ~out.panicked
            within == \A k \in DOMAIN a.m : k \in DOMAIN b.m /\ a.m[k] = b.m[k]
        IN /\ last.call.op = "Map.IsSubsetOf" => (LastErrors = <<>> <=> within)
           /\ passes(Map_IsSubsetOf(a, b, msg)) <=> within
           /\ passes(Map_IsSubsetOf(a, b, msg)) <=> passes(Map_IsSupersetOf(b, a, msg))
           /\ DOMAIN a.m = {} => passes(Map_IsSubsetOf(a, b, msg))
           /\ \A order \in Orders(a.m) :
                  passes(Map_Equal(a, b, order, msg)) <=>
                      (passes(Map_IsSubsetOf(a, b, msg)) /\ passes(Map_IsSupersetOf(a, b, msg)))

\* IsSubsetOf failed on two maps with the same keys and one value that
\* differs, and IsSupersetOf with the maps exchanged fails too.
C30_Witness ==
    /\ last.call.op = "Map.IsSubsetOf"
    /\ DOMAIN last.call.x.m = DOMAIN last.call.y.m
    /\ Cardinality(DOMAIN last.call.x.m) = 2
    /\ Len(LastErrors) = 1
    /\ Errors(Map_IsSupersetOf(last.call.y, last.call.x, last.call.msg).trace) # <<>>

====
